---- MODULE Spec2Model ----
(***************************************************************************)
(* Model of the import-data merge engine of onify/functions:               *)
(*   src/src/modules/onify/v1/mergeDataFunctions.js  (mergeImportData and  *)
(*   the two report renderers).                                            *)
(*                                                                         *)
(* JavaScript values are tagged records [t |-> type, v |-> payload].       *)
(* Entities are functions from field names to values.  Arrays held by      *)
(* entities are references into a heap, because mergeArrays pushes onto    *)
(* the target array in place and source entities / source arrays are       *)
(* placed into the target by reference.  Entity objects themselves are     *)
(* never mutated after creation by the code (slots of target[node] are     *)
(* replaced), so they are modelled by value.                               *)
(*                                                                         *)
(* Object keys are iterated in the fixed order FieldOrder / NodeOrder      *)
(* (the order in which the request bodies of the model list them).         *)
(***************************************************************************)
EXTENDS Integers, Sequences, FiniteSets, TLC

VARIABLES
    source,             \* the source collection (argument object)
    target,             \* the target collection (argument object, mutated)
    heap,               \* array address -> current elements
    overwrite,          \* option
    appendArrayValues,  \* option
    excludeAttributes,  \* option (sequence of field names)
    updates,            \* local: node -> sequence of entities
    report,             \* local: [New, Updated], each node -> sequence of ids
    detailedDiffs,      \* local: node -> (property key -> diff list)
    targetCopy,         \* local: deep copy of target taken at the call
    sourceCopy,         \* local: deep copy of source taken at the call
    pc,                 \* position: "call", "loop", "render", "done", "raised"
    nodeIdx,            \* index into Object.keys(source) of the node in progress
    itemIdx,            \* number of items of source[node] already processed
    result,             \* the value returned by mergeImportData
    initial,            \* history: the bodies (by value) of the first call
    round,              \* 1 for the first call, 2 for a second call on the result
    prev,               \* history: target and report at the return of the first call
    thrown,             \* the message of the exception raised, "" when none
    query,              \* req.query of the request being served
    responses,          \* the responses sent for the request, in order
    inbox,              \* the requests received and not yet routed, in order
    served              \* history: the requests answered, with their responses

vars == <<source, target, heap, overwrite, appendArrayValues, excludeAttributes,
          updates, report, detailedDiffs, targetCopy, sourceCopy, pc, nodeIdx,
          itemIdx, result, initial, round, prev, thrown, query, responses,
          inbox, served>>

\* the request and its responses, which mergeImportData does not touch
boundary == <<query, responses>>

\* the requests waiting and the exchanges completed, which no handler touches
server == <<inbox, served>>

----------------------------------------------------------------------------
(* Bounds of the model *)

MaxSrcLen == 2
MaxTgtLen == 2

----------------------------------------------------------------------------
(* JavaScript values *)

Str(s) == [t |-> "string", v |-> s]
Num(n) == [t |-> "number", v |-> n]
Undefined == [t |-> "undefined", v |-> ""]
\* an array by reference (address into heap)
Ref(a) == [t |-> "array", v |-> a]
\* an array by value (JSON text of a request body, or a deep copy)
Arr(s) == [t |-> "arrayval", v |-> s]
\* a collection value that is an array of entities
List(s) == [t |-> "list", v |-> s]

IsArray(x) == x.t \in {"array", "arrayval", "list"}

\* JavaScript truthiness, as used by || in getUniqueId
Truthy(x) == ~(x = Undefined \/ x = Str("") \/ x = Num(0))

----------------------------------------------------------------------------
(* Objects: an entity is the sequence of its <<key, value>> properties in    *)
(* insertion order (the order Object.keys reports).                          *)

Keys(obj) == [i \in 1..Len(obj) |-> obj[i][1]]

Has(obj, key) == \E i \in 1..Len(obj) : obj[i][1] = key

\* obj[key], undefined when the key is absent
Get(obj, key) ==
    IF Has(obj, key)
    THEN obj[CHOOSE i \in 1..Len(obj) : obj[i][1] = key][2]
    ELSE Undefined

SeqToSet(s) == {s[i] : i \in 1..Len(s)}

\* Array.prototype.includes on a sequence
Includes(s, x) == \E i \in 1..Len(s) : s[i] = x

\* { ...a, ...b }: the keys of a in order with b's value where b has the key,
\* then the keys only b has, in b's order
Spread(a, b) ==
    [i \in 1..Len(a) |->
        IF Has(b, a[i][1]) THEN <<a[i][1], Get(b, a[i][1])>> ELSE a[i]]
    \o SelectSeq(b, LAMBDA p : ~Has(a, p[1]))

\* a property key: JavaScript converts the value used as a key to a string
ToKey(x) ==
    CASE x.t = "string" -> x.v
      [] x.t = "number" -> ToString(x.v)
      [] OTHER -> "undefined"

----------------------------------------------------------------------------
(* JSON *)

RECURSIVE JoinStrings(_, _)
JoinStrings(s, sep) ==
    IF Len(s) = 0 THEN ""
    ELSE IF Len(s) = 1 THEN s[1]
    ELSE s[1] \o sep \o JoinStrings(Tail(s), sep)

\* JSON.stringify of a scalar or of an array of scalars; h is the heap
Stringify(x, h) ==
    LET Scalar(y) ==
            CASE y.t = "string" -> "\"" \o y.v \o "\""
              [] y.t = "number" -> ToString(y.v)
              [] OTHER -> "null"
        Elems(s) == "[" \o JoinStrings([i \in 1..Len(s) |-> Scalar(s[i])], ",") \o "]"
    IN  CASE x.t = "array" -> Elems(h[x.v])
          [] x.t = "arrayval" -> Elems(x.v)
          [] OTHER -> Scalar(x)

\* JSON.parse(JSON.stringify(entity)): arrays are copied by value
CopyEntity(e, h) ==
    [i \in 1..Len(e) |->
        IF e[i][2].t = "array" THEN <<e[i][1], Arr(h[e[i][2].v])>> ELSE e[i]]

\* (mutant of DeepCopy: the copy shares the entities' arrays)
DeepCopyShared(coll, h) == coll

\* JSON.parse(JSON.stringify(collection))
DeepCopy(coll, h) ==
    [n \in DOMAIN coll |->
        IF coll[n].t = "list"
        THEN List([i \in 1..Len(coll[n].v) |-> CopyEntity(coll[n].v[i], h)])
        ELSE coll[n]]

----------------------------------------------------------------------------
(* mergeDataFunctions.js: helpers *)

\* (mutant of getUniqueId: the slug alone identifies an entity)
getUniqueIdSlug(item) == Get(item, "slug")

\* getUniqueId: item.slug || item.key || item.id
getUniqueId(item) ==
    IF Truthy(Get(item, "slug")) THEN Get(item, "slug")
    ELSE IF Truthy(Get(item, "key")) THEN Get(item, "key")
    ELSE Get(item, "id")

\* the inner isImportFormat of mergeImportData: some key maps to an array
isImportFormat(data) == \E n \in DOMAIN data : IsArray(data[n])

\* (mutant of filterObject: nothing is filtered out)
filterObjectNone(obj, excludeKeys) == obj

\* filterObject: the properties whose key is not excluded
filterObject(obj, excludeKeys) ==
    SelectSeq(obj, LAMBDA p : ~Includes(excludeKeys, p[1]))

----------------------------------------------------------------------------
(* deep-diff: diff(lhs, rhs), as imported at the top of the file.  Entries   *)
(* are built in the library's order: the keys of lhs in order (a shared key   *)
(* is compared, a key rhs lacks is Deleted), then the keys only rhs has       *)
(* (New); arrays report their length difference from the highest index down   *)
(* and then compare the common elements from the highest index down.          *)

DiffE(path, l, r) == [kind |-> "E", path |-> path, lhs |-> l, rhs |-> r]
DiffN(path, r) == [kind |-> "N", path |-> path, rhs |-> r]
DiffD(path, l) == [kind |-> "D", path |-> path, lhs |-> l]
DiffA(path, index, item) == [kind |-> "A", path |-> path, index |-> index, item |-> item]

RECURSIVE Flatten(_)
Flatten(ss) == IF Len(ss) = 0 THEN <<>> ELSE Head(ss) \o Flatten(Tail(ss))

Min(a, b) == IF a < b THEN a ELSE b

DiffArray(L, R, path) ==
    LET lenL == Len(L)
        lenR == Len(R)
        m == Min(lenL, lenR)
    IN  (IF lenR > lenL
         THEN [n \in 1..(lenR - lenL) |->
                DiffA(path, lenR - n, [kind |-> "N", rhs |-> R[lenR - n + 1]])]
         ELSE <<>>)
        \o
        (IF lenL > lenR
         THEN [n \in 1..(lenL - lenR) |->
                DiffA(path, lenL - n, [kind |-> "D", lhs |-> L[lenL - n + 1]])]
         ELSE <<>>)
        \o
        Flatten([n \in 1..m |->
            IF L[m - n + 1] # R[m - n + 1]
            THEN <<DiffE(path \o <<Num(m - n)>>, L[m - n + 1], R[m - n + 1])>>
            ELSE <<>>])

DiffValue(l, r, path, h) ==
    IF l.t # r.t THEN <<DiffE(path, l, r)>>
    ELSE IF l.t = "array" THEN DiffArray(h[l.v], h[r.v], path)
    ELSE IF l # r THEN <<DiffE(path, l, r)>>
    ELSE <<>>

diff(lhs, rhs, h) ==
    Flatten([i \in 1..Len(lhs) |->
        IF Has(rhs, lhs[i][1])
        THEN DiffValue(lhs[i][2], Get(rhs, lhs[i][1]), <<Str(lhs[i][1])>>, h)
        ELSE <<DiffD(<<Str(lhs[i][1])>>, lhs[i][2])>>])
    \o
    Flatten([i \in 1..Len(rhs) |->
        IF Has(lhs, rhs[i][1]) THEN <<>>
        ELSE <<DiffN(<<Str(rhs[i][1])>>, rhs[i][2])>>])

\* path.join('.')
JoinPath(path) == JoinStrings([i \in 1..Len(path) |-> ToKey(path[i])], ".")

----------------------------------------------------------------------------
(* mergeArrays and the appendArrayValues loop *)

\* mergeArrays(targetArray, sourceArray): T, S are the arrays' elements.  Each
\* source element whose JSON text equals that of no element of the target
\* array (as it is by then) is pushed onto the target array and onto added.
RECURSIVE MergeFold(_, _, _, _)
MergeFold(T, S, added, h) ==
    IF Len(S) = 0 THEN [mergedArray |-> T, added |-> added]
    ELSE IF \E j \in 1..Len(T) : Stringify(T[j], h) = Stringify(Head(S), h)
         THEN MergeFold(T, Tail(S), added, h)
         ELSE MergeFold(Append(T, Head(S)), Tail(S), Append(added, Head(S)), h)

\* (mutant of mergeArrays: every source element is pushed)
mergeArraysConcat(targetArray, sourceArray, h) ==
    [mergedArray |-> targetArray \o sourceArray, added |-> sourceArray]

mergeArrays(targetArray, sourceArray, h) == MergeFold(targetArray, sourceArray, <<>>, h)

\* (mutant of IndexOf: every element is found at the start of the array)
IndexOfFirst(arr, x) == 0

\* Array.prototype.indexOf (strict equality), 0-based, -1 when absent
IndexOf(arr, x) ==
    IF \E j \in 1..Len(arr) : arr[j] = x
    THEN (CHOOSE j \in 1..Len(arr) :
            arr[j] = x /\ \A k \in 1..(j - 1) : arr[k] # x) - 1
    ELSE -1

\* (mutant of PushedArray: the elements are pushed onto the source array)
PushedArraySource(targetArray, sourceArray) == sourceArray.v

\* line 145: targetArray.push(sourceItem), the array mergeArrays grows
PushedArray(targetArray, sourceArray) == targetArray.v

\* Object.keys(sourceItemFiltered).forEach(key => ...) of the append step:
\* for every key whose value is an array in both filtered items, the target
\* array is merged in place (in the heap) and one Array entry is pushed per
\* added element.  Returns the heap and the diff list after the loop.
RECURSIVE AppendLoop(_, _, _, _, _)
AppendLoop(keys, tf, sf, h, itemDiffs) ==
    IF Len(keys) = 0 THEN [heap |-> h, itemDiffs |-> itemDiffs]
    ELSE
        LET key == Head(keys)
            tv == Get(tf, key)
            sv == Get(sf, key)
        IN  IF tv.t = "array" /\ sv.t = "array"
            THEN LET m == mergeArrays(h[tv.v], h[sv.v], h)
                     h2 == [h EXCEPT ![PushedArray(tv, sv)] = m.mergedArray]
                     entries == [a \in 1..Len(m.added) |->
                                    DiffA(<<Str(key)>>,
                                          IndexOf(m.mergedArray, m.added[a]),
                                          [kind |-> "N", rhs |-> m.added[a]])]
                 IN  AppendLoop(Tail(keys), tf, sf, h2, itemDiffs \o entries)
            ELSE AppendLoop(Tail(keys), tf, sf, h, itemDiffs)

\* the post-processing of a non-empty diff list: an Edited entry whose path
\* without its last element is the path of some Array entry is dropped
PostProcess(itemDiffs) ==
    LET aEntries == SelectSeq(itemDiffs, LAMBDA d : d.kind = "A")
        arrayAdditions == [i \in 1..Len(aEntries) |-> JoinPath(aEntries[i].path)]
    IN  SelectSeq(itemDiffs, LAMBDA d :
            IF d.kind # "E" THEN TRUE
            ELSE ~Includes(arrayAdditions,
                           JoinPath(SubSeq(d.path, 1, Len(d.path) - 1))))

----------------------------------------------------------------------------
(* Request bodies of the model (by value) *)

NodeOrder == <<"form", "workspace">>

Slugs == {"a", "b"}

\* a key that is absent from an object of the model
Absent == [t |-> "absent", v |-> ""]

TgtEntity(s) ==
    << <<"slug", Str(s)>>, <<"title", Str("T")>>,
       <<"tags", Arr(<<Num(1)>>)>>, <<"createdate", Str("d1")>> >>

SrcVariants(s) ==
    { << <<"slug", Str(s)>>, <<"title", Str("S")>> >>,
      << <<"slug", Str(s)>>, <<"title", Str("T")>>,
         <<"tags", Arr(<<Num(1)>>)>>, <<"createdate", Str("d2")>> >>,
      << <<"slug", Str(s)>>, <<"title", Str("T")>>,
         <<"tags", Arr(<<Num(1), Num(2)>>)>>, <<"createdate", Str("d1")>> >>,
      << <<"slug", Str(s)>>, <<"title", Str("S")>>,
         <<"tags", Arr(<<Num(2)>>)>>, <<"note", Str("n")>>,
         <<"createdate", Str("d2")>> >> }

\* an entity identified by a numeric id
NumericIdEntity == << <<"id", Num(1)>>, <<"title", Str("S")>> >>

\* an entity whose identifier holds a colon
ColonIdEntity == << <<"slug", Str("a:b")>>, <<"title", Str("S")>> >>

\* an entity with an empty slug and a key
EmptySlugEntity == << <<"slug", Str("")>>, <<"key", Str("a")>>, <<"title", Str("S")>> >>

TgtEntities == {TgtEntity(s) : s \in Slugs}

SrcEntities == UNION {SrcVariants(s) : s \in Slugs} \cup {NumericIdEntity, ColonIdEntity, EmptySlugEntity}

SeqsUpTo(S, n) == UNION {[1..k -> S] : k \in 0..n}

DistinctIds(es) ==
    \A i, j \in 1..Len(es) : i # j => getUniqueId(es[i]) # getUniqueId(es[j])

\* the values of target.form: absent, not an array, or entities with distinct ids
TgtForms ==
    {Absent, Str("x")}
    \cup {List(es) : es \in {q \in SeqsUpTo(TgtEntities, MaxTgtLen) : DistinctIds(q)}}

\* a source.form of three entities, the last two with the same id and tags
RepeatedIdForm ==
    List(<< << <<"slug", Str("a")>>, <<"title", Str("S")>> >>,
            << <<"slug", Str("a:b")>>, <<"title", Str("S")>>, <<"tags", Arr(<<Num(1)>>)>> >>,
            << <<"slug", Str("a:b")>>, <<"title", Str("S")>>,
               <<"tags", Arr(<<Num(1), Num(2)>>)>> >> >>)

\* the values of source.form
SrcForms ==
    {Absent, Str("x"), RepeatedIdForm}
    \cup {List(es) : es \in SeqsUpTo(SrcEntities, MaxSrcLen)}

TgtWorkspaces ==
    {Absent, List(<< << <<"slug", Str("w")>>, <<"title", Str("T")>>,
                        <<"tags", Arr(<<Str("1")>>)>> >> >>)}

SrcWorkspaces ==
    {Absent, List(<< << <<"slug", Str("w")>>, <<"title", Str("S")>>,
                        <<"tags", Arr(<<Num(1), Num(2), Num(2), Str("1"), Num(0)>>)>> >> >>)}

Collection(form, workspace) ==
    [n \in {k \in {"form", "workspace"} :
                (k = "form" /\ form # Absent) \/ (k = "workspace" /\ workspace # Absent)}
        |-> IF n = "form" THEN form ELSE workspace]

ExcludeChoices == {<<>>, <<"createdate">>, <<"slug">>}

\* Object.keys(collection)
NodeKeys(coll) == SelectSeq(NodeOrder, LAMBDA n : n \in DOMAIN coll)

\* The arrays of a parsed body live at the addresses <<side, node, i, key>>
Addresses(side, coll) ==
    UNION {UNION {{<<side, n, i, coll[n].v[i][j][1]>> :
                        j \in {k \in 1..Len(coll[n].v[i]) :
                                    coll[n].v[i][k][2].t = "arrayval"}} :
                  i \in 1..Len(coll[n].v)} :
           n \in {m \in DOMAIN coll : coll[m].t = "list"}}

\* the parsed body: every array of an entity becomes a reference
Parse(side, coll) ==
    [n \in DOMAIN coll |->
        IF coll[n].t = "list"
        THEN List([i \in 1..Len(coll[n].v) |->
                [j \in 1..Len(coll[n].v[i]) |->
                    IF coll[n].v[i][j][2].t = "arrayval"
                    THEN <<coll[n].v[i][j][1], Ref(<<side, n, i, coll[n].v[i][j][1]>>)>>
                    ELSE coll[n].v[i][j]]])
        ELSE coll[n]]

ParseHeap(src, tgt) ==
    [a \in Addresses("s", src) \cup Addresses("t", tgt) |->
        LET coll == IF a[1] = "s" THEN src ELSE tgt
        IN  Get(coll[a[2]].v[a[3]], a[4]).v]

EmptyMap == [k \in {} |-> <<>>]

Init ==
    \E sf \in SrcForms, sw \in SrcWorkspaces, tf \in TgtForms, tw \in TgtWorkspaces :
        LET src == Collection(sf, sw)
            tgt == Collection(tf, tw)
        IN  /\ source = Parse("s", src)
            /\ target = Parse("t", tgt)
            /\ heap = ParseHeap(src, tgt)
            /\ initial = [source |-> src, target |-> tgt]
    /\ overwrite \in BOOLEAN
    /\ appendArrayValues \in BOOLEAN
    /\ excludeAttributes \in ExcludeChoices
    /\ updates = EmptyMap
    /\ report = [New |-> EmptyMap, Updated |-> EmptyMap]
    /\ detailedDiffs = EmptyMap
    /\ targetCopy = EmptyMap
    /\ sourceCopy = EmptyMap
    /\ pc = "call"
    /\ nodeIdx = 0
    /\ itemIdx = 0
    /\ result = Undefined
    /\ round = 1
    /\ prev = Undefined
    /\ thrown = ""
    /\ query = EmptyMap
    /\ responses = <<>>
    /\ inbox = <<>>
    /\ served = <<>>

----------------------------------------------------------------------------
(* mergeImportData: the body of source[node].forEach(sourceItem => ...)      *)

\* findIndex(item => getUniqueId(item) === itemId), 1-based, 0 when absent
FindIndex(tlist, itemId) ==
    IF \E i \in 1..Len(tlist) : getUniqueId(tlist[i]) = itemId
    THEN CHOOSE i \in 1..Len(tlist) :
            /\ getUniqueId(tlist[i]) = itemId
            /\ \A k \in 1..(i - 1) : getUniqueId(tlist[k]) # itemId
    ELSE 0

\* (mutant of InitialDiffs: the entities are compared without overwrite too)
InitialDiffsAlways(ow, tf, sf, h) == diff(tf, sf, h)

\* line 204: the diff list the conflict branch starts from
InitialDiffs(ow, tf, sf, h) == IF ow THEN diff(tf, sf, h) ELSE <<>>

\* (mutant of OverwriteSlot: the source entity replaces the target entity)
OverwriteSlotSource(tf, sf) == sf

\* line 205: the entity stored under overwrite
OverwriteSlot(tf, sf) == Spread(tf, sf)

\* (mutant of AppendSlot: the spread of line 205 is stored again)
AppendSlotSpread(tf, sf) == Spread(tf, sf)

\* lines 238 and 273: the entity stored after the append loop
AppendSlot(tf, sf) == tf

\* line 200: the matched target entity without the excluded attributes
targetItemFiltered(targetItem, excl) == filterObject(targetItem, excl)

\* (mutant of sourceItemFiltered: the source item keeps every attribute)
sourceItemUnfiltered(sourceItem, excl) == sourceItem

\* line 201: the source item without the excluded attributes
sourceItemFiltered(sourceItem, excl) == filterObject(sourceItem, excl)

\* (mutant of UpdatedEntity: the entity as it was before the merge is pushed)
UpdatedEntityStale(targetItem, slot) == targetItem

\* line 305: updates[node].push(target[node][targetItemIndex])
UpdatedEntity(targetItem, slot) == slot

\* lines 199-306: a source item whose id matches target[node][idx]
ConflictBranch(sourceItem, tlist, idx, h, ow, app, excl) ==
    LET targetItem == tlist[idx]
        tf == targetItemFiltered(targetItem, excl)
        sf == sourceItemFiltered(sourceItem, excl)
        d0 == InitialDiffs(ow, tf, sf, h)
        slot1 == IF ow THEN OverwriteSlot(tf, sf) ELSE targetItem
        al == IF app THEN AppendLoop(Keys(sf), tf, sf, h, d0)
              ELSE [heap |-> h, itemDiffs |-> d0]
        slot2 == IF app THEN AppendSlot(tf, sf) ELSE slot1
        recorded == Len(al.itemDiffs) > 0
    IN  [found |-> TRUE,
         targetList |-> [tlist EXCEPT ![idx] = slot2],
         heap |-> al.heap,
         recorded |-> recorded,
         itemDiffs |-> IF recorded THEN PostProcess(al.itemDiffs) ELSE <<>>,
         pushed |-> UpdatedEntity(targetItem, slot2)]

\* (mutant of NewBranch: the item is put in front of target[node])
NewBranchFront(sourceItem, tlist, h) ==
    [found |-> FALSE,
     targetList |-> <<sourceItem>> \o tlist,
     heap |-> h,
     recorded |-> FALSE,
     itemDiffs |-> <<>>,
     pushed |-> sourceItem]

\* (mutant of NewBranch: the item is not pushed onto target[node])
NewBranchNoPush(sourceItem, tlist, h) ==
    [found |-> FALSE,
     targetList |-> tlist,
     heap |-> h,
     recorded |-> FALSE,
     itemDiffs |-> <<>>,
     pushed |-> sourceItem]

\* lines 307-312: a source item whose id matches no target entity
NewBranch(sourceItem, tlist, h) ==
    [found |-> FALSE,
     targetList |-> Append(tlist, sourceItem),
     heap |-> h,
     recorded |-> FALSE,
     itemDiffs |-> <<>>,
     pushed |-> sourceItem]

MergeItem(sourceItem, tlist, h, ow, app, excl) ==
    LET idx == FindIndex(tlist, getUniqueId(sourceItem))
    IN  IF idx # 0
        THEN ConflictBranch(sourceItem, tlist, idx, h, ow, app, excl)
        ELSE NewBranch(sourceItem, tlist, h)

\* m[k] = v on an object used as a map
Put(m, k, v) == (k :> v) @@ m

\* (mutant of PushAt: the value is pushed twice)
PushAtTwice(m, k, x) ==
    Put(m, k, (IF k \in DOMAIN m THEN m[k] ELSE <<>>) \o <<x, x>>)

\* m[k] = m[k] || []; m[k].push(x)
PushAt(m, k, x) == Put(m, k, Append(IF k \in DOMAIN m THEN m[k] ELSE <<>>, x))

\* (mutant of Delete: the key stays)
DeleteNothing(m, k) == m

\* delete m[k]
Delete(m, k) == [j \in (DOMAIN m) \ {k} |-> m[j]]

----------------------------------------------------------------------------
(* mergeImportData: the steps *)

\* the node in progress
Node == NodeKeys(source)[nodeIdx]

\* (mutant of CallReport: one report object is shared by every call)
CallReportShared(last) == last

\* line 92: let report = { New: {}, Updated: {} }, a new object at every call
CallReport(last) == [New |-> EmptyMap, Updated |-> EmptyMap]

\* lines 72-95: the call, the format guard and the call's locals
Call ==
    /\ pc = "call"
    /\ IF ~isImportFormat(source) /\ ~isImportFormat(target)
       THEN /\ pc' = "done"
            /\ result' = Undefined
            /\ UNCHANGED <<updates, report, detailedDiffs, targetCopy, sourceCopy,
                           nodeIdx, itemIdx>>
       ELSE /\ updates' = EmptyMap
            /\ report' = CallReport(report)
            /\ detailedDiffs' = EmptyMap
            /\ targetCopy' = DeepCopy(target, heap)
            /\ sourceCopy' = DeepCopy(source, heap)
            /\ nodeIdx' = 1
            /\ itemIdx' = 0
            /\ pc' = IF Len(NodeKeys(source)) = 0 THEN "render" ELSE "node"
            /\ UNCHANGED result
    /\ UNCHANGED <<source, target, heap, overwrite, appendArrayValues,
                   excludeAttributes, initial, round, prev, thrown>>
    /\ UNCHANGED boundary
    /\ UNCHANGED server

\* lines 168-171 and the call of source[node].forEach at line 186
BeginNode ==
    /\ pc = "node"
    /\ target' = IF Node \in DOMAIN target /\ Truthy(target[Node])
                 THEN target ELSE Put(target, Node, List(<<>>))
    /\ updates' = Put(updates, Node, <<>>)
    /\ detailedDiffs' = Put(detailedDiffs, Node, EmptyMap)
    /\ itemIdx' = 0
    /\ pc' = IF source[Node].t = "list" THEN "item" ELSE "raised"
    /\ thrown' = IF source[Node].t = "list" THEN thrown
                 ELSE "source[node].forEach is not a function"
    /\ UNCHANGED <<source, heap, overwrite, appendArrayValues, excludeAttributes,
                   report, targetCopy, sourceCopy, nodeIdx, result, initial,
                   round, prev>>
    /\ UNCHANGED boundary
    /\ UNCHANGED server

\* lines 186-313: one source item
ProcessItem ==
    /\ pc = "item"
    /\ itemIdx < Len(source[Node].v)
    /\ LET sourceItem == source[Node].v[itemIdx + 1]
           itemId == getUniqueId(sourceItem)
       IN  IF target[Node].t # "list"
           THEN \* target[node].findIndex is not a function
                /\ pc' = "raised"
                /\ thrown' = "target[node].findIndex is not a function"
                /\ UNCHANGED <<target, heap, updates, report, detailedDiffs, itemIdx>>
           ELSE LET r == MergeItem(sourceItem, target[Node].v, heap, overwrite,
                                   appendArrayValues, excludeAttributes)
                IN  /\ target' = [target EXCEPT ![Node] = List(r.targetList)]
                    /\ heap' = r.heap
                    /\ itemIdx' = itemIdx + 1
                    /\ pc' = "item"
                    /\ UNCHANGED thrown
                    /\ IF ~r.found
                       THEN /\ updates' = [updates EXCEPT ![Node] = Append(@, r.pushed)]
                            /\ report' = [report EXCEPT !.New = PushAt(@, Node, itemId)]
                            /\ UNCHANGED detailedDiffs
                       ELSE IF r.recorded
                       THEN /\ detailedDiffs' = [detailedDiffs EXCEPT ![Node] =
                                                    Put(@, ToKey(itemId), r.itemDiffs)]
                            /\ report' = [report EXCEPT !.Updated = PushAt(@, Node, itemId)]
                            /\ updates' = [updates EXCEPT ![Node] = Append(@, r.pushed)]
                       ELSE UNCHANGED <<updates, report, detailedDiffs>>
    /\ UNCHANGED <<source, overwrite, appendArrayValues, excludeAttributes,
                   targetCopy, sourceCopy, nodeIdx, result, initial, round, prev>>
    /\ UNCHANGED boundary
    /\ UNCHANGED server

\* lines 321-325: after the items of a node
FinishNode ==
    /\ pc = "item"
    /\ itemIdx = Len(source[Node].v)
    /\ LET \* every value pushed onto updates[node] is an entity object, so the
           \* filter (item => item !== undefined) keeps every element
           kept == updates[Node]
       IN  updates' = IF Len(kept) = 0 THEN Delete(updates, Node)
                      ELSE [updates EXCEPT ![Node] = kept]
    /\ nodeIdx' = nodeIdx + 1
    /\ itemIdx' = 0
    /\ pc' = IF nodeIdx < Len(NodeKeys(source)) THEN "node" ELSE "render"
    /\ UNCHANGED <<source, target, heap, overwrite, appendArrayValues,
                   excludeAttributes, report, detailedDiffs, targetCopy, sourceCopy,
                   result, initial, round, prev, thrown>>
    /\ UNCHANGED boundary
    /\ UNCHANGED server

----------------------------------------------------------------------------
(* generateTextualReport (lines 381-440).  The report is modelled as the     *)
(* sequence of its lines.  item.split(':')[0] is the item itself: no id of    *)
(* the model holds a colon.                                                   *)

ReportTypes == <<"New", "Updated">>

\* JSON.stringify inside a template literal (undefined prints as "undefined")
StringifyU(x, h) == IF x = Undefined THEN "undefined" ELSE Stringify(x, h)

Field(rec, name) == IF name \in DOMAIN rec THEN rec[name] ELSE Undefined

\* diff.item.rhs || diff.item.lhs
ItemValue(item) ==
    IF Truthy(Field(item, "rhs")) THEN Field(item, "rhs") ELSE Field(item, "lhs")

\* lines 424-432: the line of one diff entry
DiffLine(d, h) ==
    CASE d.kind = "E" ->
            "      * Changed " \o JoinPath(d.path) \o " from " \o StringifyU(d.lhs, h)
                \o " to " \o StringifyU(d.rhs, h)
      [] d.kind = "N" ->
            "      * Added new property " \o JoinPath(d.path) \o " with value "
                \o StringifyU(d.rhs, h)
      [] d.kind = "D" ->
            "      * Deleted property " \o JoinPath(d.path) \o " which had value "
                \o StringifyU(d.lhs, h)
      [] OTHER ->
            "      * Array " \o JoinPath(d.path) \o " modified at index "
                \o ToString(d.index) \o ": "
                \o (IF d.item.kind = "N" THEN "Added" ELSE "Deleted") \o " value "
                \o StringifyU(ItemValue(d.item), h)

\* the position of the first ':' of a string, 0 when it has none
ColonAt(s) ==
    IF \E i \in 1..Len(s) : SubSeq(s, i, i) = ":"
    THEN CHOOSE i \in 1..Len(s) :
            /\ SubSeq(s, i, i) = ":"
            /\ \A j \in 1..(i - 1) : SubSeq(s, j, j) # ":"
    ELSE 0

\* lines 412 and 503: const itemId = item.split(':')[0], for a string item
SplitItemId(item) ==
    IF item.t # "string" \/ ColonAt(item.v) = 0 THEN item
    ELSE Str(SubSeq(item.v, 1, ColonAt(item.v) - 1))

\* the diff list the renderers find for an item of a node, <<>> when none
ChangesOf(dd, node, item) ==
    IF node \in DOMAIN dd /\ ToKey(item) \in DOMAIN dd[node]
    THEN dd[node][ToKey(item)] ELSE <<>>

\* item.split is not a function unless the recorded id is a string
TextRaises(rep) ==
    \E ty \in DOMAIN rep : \E node \in DOMAIN rep[ty] :
        \E i \in 1..Len(rep[ty][node]) : rep[ty][node][i].t # "string"

ItemLines(rep, dd, ty, node, h) ==
    Flatten([i \in 1..Len(rep[ty][node]) |->
        <<"    - " \o ToKey(rep[ty][node][i])>>
        \o [k \in 1..Len(ChangesOf(dd, node, SplitItemId(rep[ty][node][i]))) |->
                DiffLine(ChangesOf(dd, node, SplitItemId(rep[ty][node][i]))[k], h)]])

generateTextualReport(rep, dd, h) ==
    Flatten([t \in 1..Len(ReportTypes) |->
        LET ty == ReportTypes[t]
            nodes == NodeKeys(rep[ty])
        IN  IF Len(nodes) = 0 THEN <<>>
            ELSE <<ty \o ":">>
                 \o Flatten([n \in 1..Len(nodes) |->
                        <<"  " \o nodes[n] \o ":">>
                        \o ItemLines(rep, dd, ty, nodes[n], h)])])

----------------------------------------------------------------------------
(* generateHTMLReport (lines 459-603).  The fragment is modelled as the      *)
(* sequence of its <li> items: for an item with a diff list, its change      *)
(* lines, the values highlighted in "after", and the before / after          *)
(* snapshots; for an item without one, the new entity.                       *)

\* the entity of a snapshot's node with the given id, Undefined when none
FindById(coll, node, id) ==
    LET es == coll[node].v
        i == FindIndex(es, id)
    IN  IF i = 0 THEN Undefined ELSE es[i]

\* the lookups at lines 512-513 and 591 raise when the snapshot has no such
\* node or no such entity (JSON.parse(undefined), undefined.replace)
LookupRaises(coll, node, id) ==
    \/ node \notin DOMAIN coll
    \/ coll[node].t # "list"
    \/ FindIndex(coll[node].v, id) = 0

HtmlRaises(rep, dd, tcopy, scopy) ==
    \E ty \in DOMAIN rep : \E node \in DOMAIN rep[ty] :
        \E i \in 1..Len(rep[ty][node]) :
            LET itemId == SplitItemId(rep[ty][node][i])
            IN  IF Len(ChangesOf(dd, node, itemId)) > 0
                THEN LookupRaises(tcopy, node, itemId)
                ELSE LookupRaises(scopy, node, itemId)

ByValue(x, h) == IF x.t = "array" THEN Arr(h[x.v]) ELSE x

Hole == [t |-> "hole", v |-> ""]

SetKey(obj, k, x) ==
    IF Has(obj, k)
    THEN [i \in 1..Len(obj) |-> IF obj[i][1] = k THEN <<k, x>> ELSE obj[i]]
    ELSE Append(obj, <<k, x>>)

\* arr[i] = x for a 0-based i, with holes up to i when i is past the end
ArraySet(a, i, x) ==
    [j \in 1..(IF i + 1 > Len(a) THEN i + 1 ELSE Len(a)) |->
        IF j = i + 1 THEN x ELSE IF j <= Len(a) THEN a[j] ELSE Hole]

\* deep-diff arrayRemove(arr, i)
ArrayRemove(a, i) ==
    IF i < Len(a) THEN SubSeq(a, 1, i) \o SubSeq(a, i + 2, Len(a))
    ELSE ArraySet(a, i - 1, Hole)

\* deep-diff applyChange(after, null, change) on the copy of "before"
applyChange(after, change, h) ==
    LET key == change.path[1].v
        cur == IF Has(after, key) /\ Get(after, key).t = "arrayval"
               THEN Get(after, key).v ELSE <<>>
    IN  IF change.kind = "A"
        THEN SetKey(after, key,
                Arr(IF change.item.kind = "N"
                    THEN ArraySet(cur, change.index, ByValue(change.item.rhs, h))
                    ELSE ArrayRemove(cur, change.index)))
        ELSE IF Len(change.path) = 2
        THEN SetKey(after, key, Arr(ArraySet(cur, change.path[2].v, ByValue(change.rhs, h))))
        ELSE IF change.kind = "D"
        THEN SelectSeq(after, LAMBDA p : p[1] # key)
        ELSE SetKey(after, key, ByValue(change.rhs, h))

RECURSIVE ApplyAll(_, _, _)
ApplyAll(after, changes, h) ==
    IF Len(changes) = 0 THEN after
    ELSE ApplyAll(applyChange(after, Head(changes), h), Tail(changes), h)

\* lines 533-581: the entries that get a change line
Reported(change) ==
    change.kind \in {"E", "N"} \/ (change.kind = "A" /\ change.item.kind = "N")

\* lines 537, 567, 574 (no string value of the model parses as a JSON object,
\* so the nested-object branch at lines 546-564 is never taken)
ChangeLine(change, h) ==
    IF change.kind = "A"
    THEN JoinPath(change.path) \o " extended with " \o StringifyU(change.item.rhs, h)
    ELSE JoinPath(change.path) \o " changed from "
            \o StringifyU(Field(change, "lhs"), h) \o " to " \o StringifyU(change.rhs, h)

\* lines 538, 568, 575: the text made bold in "after"
Highlight(change, h) ==
    IF change.kind = "A" THEN StringifyU(change.item.rhs, h)
    ELSE StringifyU(change.rhs, h)

HtmlItem(ty, node, item, dd, tcopy, scopy, h) ==
    LET changes == ChangesOf(dd, node, SplitItemId(item))
        shown == SelectSeq(changes, Reported)
    IN  IF Len(changes) > 0
        THEN [type |-> ty, node |-> node, item |-> item,
              lines |-> [k \in 1..Len(shown) |-> ChangeLine(shown[k], h)],
              bold |-> [k \in 1..Len(shown) |-> Highlight(shown[k], h)],
              before |-> FindById(tcopy, node, SplitItemId(item)),
              after |-> ApplyAll(FindById(tcopy, node, SplitItemId(item)), changes, h)]
        ELSE [type |-> ty, node |-> node, item |-> item,
              entity |-> FindById(scopy, node, SplitItemId(item))]

generateHTMLReport(rep, dd, tcopy, scopy, h) ==
    Flatten([t \in 1..Len(ReportTypes) |->
        LET ty == ReportTypes[t]
            nodes == NodeKeys(rep[ty])
        IN  Flatten([n \in 1..Len(nodes) |->
                [i \in 1..Len(rep[ty][nodes[n]]) |->
                    HtmlItem(ty, nodes[n], rep[ty][nodes[n]][i], dd, tcopy, scopy, h)]])])

\* the message of the first exception of the two renderers (the text report is
\* rendered first; the HTML report raises at the first item whose lookup fails)
RenderError(rep, dd, tcopy, scopy) ==
    IF TextRaises(rep) THEN "item.split is not a function"
    ELSE LET items == Flatten([t \in 1..Len(ReportTypes) |->
                LET ty == ReportTypes[t]
                    nodes == NodeKeys(rep[ty])
                IN  Flatten([n \in 1..Len(nodes) |->
                        [i \in 1..Len(rep[ty][nodes[n]]) |->
                            [node |-> nodes[n],
                             item |-> SplitItemId(rep[ty][nodes[n]][i])]]])])
             bad == SelectSeq(items, LAMBDA x :
                        IF Len(ChangesOf(dd, x.node, x.item)) > 0
                        THEN LookupRaises(tcopy, x.node, x.item)
                        ELSE LookupRaises(scopy, x.node, x.item))
             x == bad[1]
         IN  IF Len(ChangesOf(dd, x.node, x.item)) = 0
             THEN "Cannot read properties of undefined (reading 'replace')"
             ELSE IF x.node \notin DOMAIN tcopy
             THEN "Cannot read properties of undefined (reading 'find')"
             ELSE "\"undefined\" is not valid JSON"

\* line 327: both reports are rendered and the result is returned
Return ==
    /\ pc = "render"
    /\ IF TextRaises(report) \/ HtmlRaises(report, detailedDiffs, targetCopy, sourceCopy)
       THEN /\ pc' = "raised"
            /\ thrown' = RenderError(report, detailedDiffs, targetCopy, sourceCopy)
            /\ UNCHANGED result
       ELSE /\ pc' = "done"
            /\ UNCHANGED thrown
            /\ result' = [updates |-> updates,
                          report |-> generateTextualReport(report, detailedDiffs, heap),
                          htmlReport |-> generateHTMLReport(report, detailedDiffs,
                                                            targetCopy, sourceCopy, heap)]
    /\ UNCHANGED <<source, target, heap, overwrite, appendArrayValues,
                   excludeAttributes, updates, report, detailedDiffs, targetCopy,
                   sourceCopy, nodeIdx, itemIdx, initial, round, prev>>
    /\ UNCHANGED boundary
    /\ UNCHANGED server

\* the caller merges the same source object into the resulting target again
Remerge ==
    /\ pc = "done"
    /\ round = 1
    /\ result # Undefined
    /\ round' = 2
    /\ prev' = [target |-> DeepCopy(target, heap), report |-> report]
    /\ pc' = "call"
    /\ result' = Undefined
    /\ UNCHANGED <<source, target, heap, overwrite, appendArrayValues,
                   excludeAttributes, updates, report, detailedDiffs, targetCopy,
                   sourceCopy, nodeIdx, itemIdx, initial, thrown>>
    /\ UNCHANGED boundary
    /\ UNCHANGED server

Next == Call \/ BeginNode \/ ProcessItem \/ FinishNode \/ Return

Spec == Init /\ [][Next]_vars

NextTwice == Next \/ Remerge

SpecTwice == Init /\ [][NextTwice]_vars

----------------------------------------------------------------------------
(* POST /onify/mergeImportData: the validation middlewares and the handler.  *)
(* req.query is the parsed query string: a boolean option arrives as a       *)
(* string, excludeAttributes as an array of strings.                         *)

OptionNames == {"overwrite", "appendArrayValues", "excludeAttributes"}

\* the query with the options given; o, a, e hold the raw value, or nothing
QueryOf(o, a, e) ==
    [k \in {n \in OptionNames : \/ (n = "overwrite" /\ o # {})
                                \/ (n = "appendArrayValues" /\ a # {})
                                \/ (n = "excludeAttributes" /\ e # {})} |->
        IF k = "overwrite" THEN CHOOSE x \in o : TRUE
        ELSE IF k = "appendArrayValues" THEN CHOOSE x \in a : TRUE
        ELSE CHOOSE x \in e : TRUE]

BooleanChoices == {{}, {"true"}, {"false"}}

\* the queries of the model: every option left out or given, and a query
\* whose overwrite is not a boolean
Queries ==
    {QueryOf(o, a, e) : o \in BooleanChoices, a \in BooleanChoices,
                        e \in {{}} \cup {{x} : x \in ExcludeChoices}}
    \cup {QueryOf({"x"}, {}, {})}

\* the defaults of the query schema
QueryDefaults ==
    [overwrite |-> FALSE,
     appendArrayValues |-> FALSE,
     excludeAttributes |-> <<"createdate", "createdby", "modifieddate", "modifiedby">>]

\* (mutant of JoiBoolean: every non-empty string counts as true)
JoiBooleanTruthy(raw) == [error |-> FALSE, value |-> raw # ""]

\* Joi.boolean() converts the strings "true" and "false"
JoiBoolean(raw) == [error |-> raw \notin {"true", "false"}, value |-> raw = "true"]

\* query.validate(req.query): the first error, or the value with the defaults
ValidateQuerySchema(q) ==
    LET bools == <<"overwrite", "appendArrayValues">>
        bad == SelectSeq(bools, LAMBDA k : k \in DOMAIN q /\ JoiBoolean(q[k]).error)
    IN  IF Len(bad) > 0
        THEN [error |-> "\"" \o bad[1] \o "\" must be a boolean"]
        ELSE [value |->
                [k \in OptionNames |->
                    IF k \notin DOMAIN q THEN QueryDefaults[k]
                    ELSE IF k = "excludeAttributes" THEN q[k]
                    ELSE JoiBoolean(q[k]).value]]

\* importObjectSchema: every value of a body is an array of objects
ValidateBodySchema(src, tgt) ==
    LET bad(coll) == SelectSeq(NodeOrder, LAMBDA n : n \in DOMAIN coll /\ coll[n].t # "list")
    IN  IF Len(bad(src)) > 0
        THEN [error |-> "\"source." \o bad(src)[1] \o "\" must be an array"]
        ELSE IF Len(bad(tgt)) > 0
        THEN [error |-> "\"target." \o bad(tgt)[1] \o "\" must be an array"]
        ELSE [value |-> TRUE]

\* res.status(code).send(body)
Send(code, body) == Append(responses, [status |-> code, body |-> body])

\* the request as it reaches the first middleware
InitRequest ==
    /\ query \in Queries
    /\ \E sf \in SrcForms, sw \in SrcWorkspaces, tf \in TgtForms, tw \in TgtWorkspaces :
        LET src == Collection(sf, sw)
            tgt == Collection(tf, tw)
        IN  /\ source = Parse("s", src)
            /\ target = Parse("t", tgt)
            /\ heap = ParseHeap(src, tgt)
            /\ initial = [source |-> src, target |-> tgt, query |-> query]
    /\ overwrite = FALSE
    /\ appendArrayValues = FALSE
    /\ excludeAttributes = <<>>
    /\ updates = EmptyMap
    /\ report = [New |-> EmptyMap, Updated |-> EmptyMap]
    /\ detailedDiffs = EmptyMap
    /\ targetCopy = EmptyMap
    /\ sourceCopy = EmptyMap
    /\ pc = "query"
    /\ nodeIdx = 0
    /\ itemIdx = 0
    /\ result = Undefined
    /\ round = 1
    /\ prev = Undefined
    /\ thrown = ""
    /\ responses = <<>>
    /\ inbox = <<>>
    /\ served = <<>>

\* start.js, the query middleware: 400 on errors, else req.query = value
ValidateQuery ==
    /\ pc = "query"
    /\ LET v == ValidateQuerySchema(query)
       IN  IF "error" \in DOMAIN v
           THEN /\ responses' = Send(400, [error |-> v.error])
                /\ pc' = "end"
                /\ UNCHANGED query
           ELSE /\ query' = v.value
                /\ pc' = "body"
                /\ UNCHANGED responses
    /\ UNCHANGED <<source, target, heap, overwrite, appendArrayValues,
                   excludeAttributes, updates, report, detailedDiffs, targetCopy,
                   sourceCopy, nodeIdx, itemIdx, result, initial, round, prev, thrown>>
    /\ UNCHANGED server

\* start.js, the body middleware: 400 on errors, else the handler is entered
\* and calls mergeImportData({ source, target, ...options })
ValidateBody ==
    /\ pc = "body"
    /\ LET v == ValidateBodySchema(source, target)
       IN  IF "error" \in DOMAIN v
           THEN /\ responses' = Send(400, [error |-> v.error])
                /\ pc' = "end"
                /\ UNCHANGED <<overwrite, appendArrayValues, excludeAttributes>>
           ELSE /\ overwrite' = query.overwrite
                /\ appendArrayValues' = query.appendArrayValues
                /\ excludeAttributes' = query.excludeAttributes
                /\ pc' = "call"
                /\ UNCHANGED responses
    /\ UNCHANGED <<source, target, heap, updates, report, detailedDiffs, targetCopy,
                   sourceCopy, nodeIdx, itemIdx, result, initial, round, prev,
                   thrown, query>>
    /\ UNCHANGED server

\* (mutant of HandlerSends: the handler answers nothing)
HandlerSendsNothing(returned, raised, message) == <<>>

\* the handler after the call: the responses sent for what the merge returned
\* or raised (reading mergeResult.updates of undefined raises inside the try)
HandlerSends(returned, raised, message) ==
    IF raised THEN <<[status |-> 500, body |-> [error |-> message]]>>
    ELSE IF returned = Undefined
    THEN <<[status |-> 500,
            body |-> [error |-> "Cannot read properties of undefined (reading 'updates')"]]>>
    ELSE <<[status |-> 200,
            body |-> [updates |-> returned.updates,
                      report |-> returned.report,
                      htmlReport |-> returned.htmlReport]]>>

Respond ==
    /\ pc \in {"done", "raised"}
    /\ responses' = responses \o HandlerSends(result, pc = "raised", thrown)
    /\ pc' = "end"
    /\ UNCHANGED <<source, target, heap, overwrite, appendArrayValues,
                   excludeAttributes, updates, report, detailedDiffs, targetCopy,
                   sourceCopy, nodeIdx, itemIdx, result, initial, round, prev,
                   thrown, query>>
    /\ UNCHANGED server

NextRequest == ValidateQuery \/ ValidateBody \/ Next \/ Respond

SpecRequest == InitRequest /\ [][NextRequest]_vars

----------------------------------------------------------------------------
(* The server: requests are received at any time, also while another one is  *)
(* being answered; the middlewares and the handler of a request run in one   *)
(* synchronous chain (next() is called directly, the handler awaits          *)
(* nothing), so the next request is routed when the chain has ended.         *)

MaxRequests == 3

RequestOf(sf, tf, q) ==
    [source |-> Collection(sf, Absent), target |-> Collection(tf, Absent), query |-> q]

\* the requests the server receives in the model: answered 200, 400 or 500
ServerRequests ==
    LET V1(x) == << <<"slug", Str(x)>>, <<"title", Str("S")>> >>
        V4(x) == << <<"slug", Str(x)>>, <<"title", Str("S")>>,
                    <<"tags", Arr(<<Num(2)>>)>>, <<"note", Str("n")>>,
                    <<"createdate", Str("d2")>> >>
        one == List(<<TgtEntity("a")>>)
    IN  { RequestOf(List(<<V1("a")>>), one, QueryOf({}, {}, {})),
          RequestOf(List(<<V1("a")>>), one, QueryOf({"true"}, {}, {})),
          RequestOf(List(<<V4("a"), V1("b")>>), one, QueryOf({"true"}, {"true"}, {})),
          RequestOf(List(<<V4("a"), V1("b")>>), one, QueryOf({}, {"true"}, {<<"slug">>})),
          RequestOf(List(<<NumericIdEntity>>), one, QueryOf({}, {}, {})),
          RequestOf(List(<<V1("a")>>), one, QueryOf({"x"}, {}, {})),
          RequestOf(Str("x"), one, QueryOf({}, {}, {})),
          RequestOf(Absent, Absent, QueryOf({}, {}, {})) }

\* express.json and the query parser build new objects for every request
Routed(r) ==
    /\ source' = Parse("s", r.source)
    /\ target' = Parse("t", r.target)
    /\ heap' = ParseHeap(r.source, r.target)
    /\ query' = r.query
    /\ initial' = r
    /\ responses' = <<>>
    /\ thrown' = ""
    /\ pc' = "query"

\* the server starts and routes its first request
InitServer ==
    /\ \E r \in ServerRequests :
        /\ source = Parse("s", r.source)
        /\ target = Parse("t", r.target)
        /\ heap = ParseHeap(r.source, r.target)
        /\ query = r.query
        /\ initial = r
    /\ overwrite = FALSE
    /\ appendArrayValues = FALSE
    /\ excludeAttributes = <<>>
    /\ updates = EmptyMap
    /\ report = [New |-> EmptyMap, Updated |-> EmptyMap]
    /\ detailedDiffs = EmptyMap
    /\ targetCopy = EmptyMap
    /\ sourceCopy = EmptyMap
    /\ pc = "query"
    /\ nodeIdx = 0
    /\ itemIdx = 0
    /\ result = Undefined
    /\ round = 1
    /\ prev = Undefined
    /\ thrown = ""
    /\ responses = <<>>
    /\ inbox = <<>>
    /\ served = <<>>

\* a request is received, whatever the server is doing
Arrive ==
    /\ Len(served) + Len(inbox) + 1 < MaxRequests
    /\ \E r \in ServerRequests : inbox' = Append(inbox, r)
    /\ UNCHANGED <<source, target, heap, overwrite, appendArrayValues,
                   excludeAttributes, updates, report, detailedDiffs, targetCopy,
                   sourceCopy, pc, nodeIdx, itemIdx, result, initial, round, prev,
                   thrown, query, responses, served>>

\* the chain of the request in progress has ended: one of the requests
\* waiting is routed; nothing else of the process is touched
Dispatch ==
    /\ pc = "end"
    /\ \E i \in 1..Len(inbox) :
        /\ Routed(inbox[i])
        /\ inbox' = SubSeq(inbox, 1, i - 1) \o SubSeq(inbox, i + 1, Len(inbox))
    /\ served' = Append(served, [request |-> initial, responses |-> responses])
    /\ UNCHANGED <<overwrite, appendArrayValues, excludeAttributes, updates, report,
                   detailedDiffs, targetCopy, sourceCopy, nodeIdx, itemIdx, result,
                   round, prev>>

NextServer == Arrive \/ Dispatch \/ NextRequest

SpecServer == InitServer /\ [][NextServer]_vars

----------------------------------------------------------------------------
(* Vocabulary of the properties *)

\* a source item is about to be processed and target[node] is an array
Processing ==
    /\ pc = "item"
    /\ itemIdx < Len(source[Node].v)
    /\ target[Node].t = "list"

\* the step taken is the processing of that item
Stepped == pc' = "item" /\ itemIdx' = itemIdx + 1

SourceItem == source[Node].v[itemIdx + 1]

\* the position of the target entity the item matches, 0 when none
MatchIdx == FindIndex(target[Node].v, getUniqueId(SourceItem))

\* the merge has returned a result object
Returned == pc = "done" /\ result # Undefined

\* the number of entities target[k] held when the merge was first called
InitialLen(k) ==
    IF k \in DOMAIN initial.target /\ initial.target[k].t = "list"
    THEN Len(initial.target[k].v) ELSE 0

\* the entities a body holds under collection key k, none when not an array
EntitiesOf(coll, k) ==
    IF k \in DOMAIN coll /\ coll[k].t = "list" THEN coll[k].v ELSE <<>>

IdsOf(es) == {getUniqueId(es[i]) : i \in 1..Len(es)}

\* the ids of the entities a body holds under collection key k
InitialIds(coll, k) ==
    IF k \in DOMAIN coll /\ coll[k].t = "list" THEN IdsOf(coll[k].v) ELSE {}

----------------------------------------------------------------------------
(* C1. Overwrite precedence, overwrite = true: when a source entity matches  *)
(* a target entity, after it is processed the merged target entity holds,    *)
(* for every non-excluded non-array field of the source entity, the source's *)
(* value, for both values of appendArrayValues.  (The claim as stated; it is *)
(* violated when appendArrayValues is true: line 238 stores the filtered     *)
(* target entity over the spread of line 205.)                               *)
C1_OverwritePrecedence ==
    [][(Processing /\ Stepped /\ overwrite /\ MatchIdx # 0) =>
        \A p \in 1..Len(SourceItem) :
            (SourceItem[p][2].t # "array"
                /\ ~Includes(excludeAttributes, SourceItem[p][1]))
            => Get(target'[Node].v[MatchIdx], SourceItem[p][1]) = SourceItem[p][2]]_vars

(* C2. Overwrite precedence, overwrite = false: no step of the merge changes *)
(* a non-array, non-excluded field of an entity of the target, whatever the  *)
(* matching source entity holds and whatever appendArrayValues is.           *)
C2_NoOverwriteKeepsFields ==
    [][~overwrite =>
        \A k \in DOMAIN target :
            target[k].t = "list" =>
                /\ k \in DOMAIN target'
                /\ target'[k].t = "list"
                /\ \A i \in 1..Len(target[k].v) :
                    /\ i <= Len(target'[k].v)
                    /\ \A p \in 1..Len(target[k].v[i]) :
                        (target[k].v[i][p][2].t # "array"
                            /\ ~Includes(excludeAttributes, target[k].v[i][p][1]))
                        => Get(target'[k].v[i], target[k].v[i][p][1])
                                = target[k].v[i][p][2]]_vars

\* a matched source entity with another title has been processed without
\* overwrite and with appendArrayValues, and the target's title stands
C2_Witness ==
    /\ ~overwrite /\ appendArrayValues
    /\ pc = "item" /\ nodeIdx = 1 /\ Node = "form" /\ itemIdx = 1
    /\ Len(EntitiesOf(initial.target, "form")) > 0
    /\ Len(EntitiesOf(initial.source, "form")) > 0
    /\ Get(EntitiesOf(initial.source, "form")[1], "title") = Str("S")
    /\ getUniqueId(EntitiesOf(initial.source, "form")[1])
            = getUniqueId(EntitiesOf(initial.target, "form")[1])
    /\ Get(EntitiesOf(target, "form")[1], "title") = Str("T")

(* C3 as stated: at return, every source entity whose id matches no entity   *)
(* of the target as passed appears unchanged in the merged target[k], is     *)
(* contained in updates[k] and has its id under New for k.  (Violated when   *)
(* source[k] repeats an id: the second entity updates the first.)            *)
C3_NewPassThrough ==
    (Returned /\ round = 1) =>
        \A k \in DOMAIN initial.source :
            initial.source[k].t = "list" =>
                \A j \in 1..Len(initial.source[k].v) :
                    LET e == initial.source[k].v[j]
                    IN  getUniqueId(e) \notin InitialIds(initial.target, k) =>
                            /\ \E i \in 1..Len(target[k].v) :
                                    CopyEntity(target[k].v[i], heap) = e
                            /\ k \in DOMAIN updates
                            /\ \E u \in 1..Len(updates[k]) :
                                    CopyEntity(updates[k][u], heap) = e
                            /\ k \in DOMAIN report.New
                            /\ Includes(report.New[k], getUniqueId(e))

\* C3, the step: an item that matches no entity of target[node] when it is
\* processed is appended verbatim, pushed onto updates and recorded as New
C3_Appended ==
    (Processing /\ Stepped /\ MatchIdx = 0) =>
        /\ target'[Node] = List(Append(target[Node].v, SourceItem))
        /\ heap' = heap
        /\ updates'[Node] = Append(updates[Node], SourceItem)
        /\ Node \in DOMAIN report'.New
        /\ report'.New[Node] =
                Append(IF Node \in DOMAIN report.New THEN report.New[Node] ELSE <<>>,
                       getUniqueId(SourceItem))

\* C3, the frame: an appended entity stays as it is in target[k] through every
\* step but the processing of a source item that matches it
C3_Stays ==
    \A k \in DOMAIN target :
        target[k].t = "list" =>
            \A i \in (InitialLen(k) + 1)..Len(target[k].v) :
                (~(Processing /\ Node = k /\ MatchIdx = i)) =>
                    /\ k \in DOMAIN target'
                    /\ target'[k].t = "list"
                    /\ i <= Len(target'[k].v)
                    /\ target'[k].v[i] = target[k].v[i]
                    /\ CopyEntity(target'[k].v[i], heap') = CopyEntity(target[k].v[i], heap)

\* C3, updates: what updates[k] holds stays in it, up to the return
C3_UpdatesKept ==
    (pc \in {"item", "render"}) =>
        /\ \A k \in DOMAIN updates :
            Len(updates[k]) > 0 =>
                /\ k \in DOMAIN updates'
                /\ Len(updates'[k]) >= Len(updates[k])
                /\ SubSeq(updates'[k], 1, Len(updates[k])) = updates[k]
        /\ report.New = report'.New \/ pc = "item"
        /\ (pc' = "done" /\ result' # Undefined) => result'.updates = updates

(* C3 (amended). New entity pass-through: every source entity whose id       *)
(* matches no entity of target[k] at the moment it is processed is appended  *)
(* unchanged to target[k], pushed onto updates[k] and its id is recorded     *)
(* under New for k; it then stays unchanged in target[k] and in updates[k]   *)
(* up to the return unless a later entity of source[k] repeats its id.       *)
C3_NewPassThroughAmended == [][C3_Appended /\ C3_Stays /\ C3_UpdatesKept]_vars

\* a new entity was appended after the entities of a non-empty target, under
\* overwrite and appendArrayValues, and the merge has returned
C3_Witness ==
    /\ Returned /\ overwrite /\ appendArrayValues
    /\ Len(EntitiesOf(initial.target, "form")) = 1
    /\ Len(EntitiesOf(initial.source, "form")) = 1
    /\ Len(EntitiesOf(target, "form")) = 2
    /\ "form" \in DOMAIN report.New
    /\ report.New["form"] = <<getUniqueId(target["form"].v[2])>>
    /\ CopyEntity(target["form"].v[2], heap) = initial.source["form"].v[1]
    /\ "form" \in DOMAIN result.updates
    /\ result.updates["form"] = <<target["form"].v[2]>>

(* C4. Identifier uniqueness: at every step the identifiers within each      *)
(* target[k] are pairwise distinct (they are when the merge is called).      *)
(* (The claim as stated; violated when excludeAttributes names the slug:     *)
(* the stored entity is the filtered one and loses its identifier.)          *)
C4_UniqueIds ==
    \A k \in DOMAIN target : target[k].t = "list" => DistinctIds(target[k].v)

(* C5. Exclusion respected in the report: no diff entry recorded in          *)
(* detailedDiffs has an excluded field as the first element of its path,     *)
(* and processing a matched pair that differs only in excluded fields        *)
(* records nothing under Updated.                                            *)
C5_NoExcludedPath ==
    \A k \in DOMAIN detailedDiffs : \A id \in DOMAIN detailedDiffs[k] :
        \A n \in 1..Len(detailedDiffs[k][id]) :
            ~Includes(excludeAttributes, detailedDiffs[k][id][n].path[1].v)

\* the two entities hold the same non-excluded fields with the same values
SameButExcluded(a, b, h) ==
    /\ {a[p][1] : p \in 1..Len(a)} \ SeqToSet(excludeAttributes)
            = {b[p][1] : p \in 1..Len(b)} \ SeqToSet(excludeAttributes)
    /\ \A p \in 1..Len(a) :
            ~Includes(excludeAttributes, a[p][1])
            => ByValue(a[p][2], h) = ByValue(Get(b, a[p][1]), h)

C5_ExcludedOnlyNotUpdated ==
    (Processing /\ Stepped /\ MatchIdx # 0
        /\ SameButExcluded(target[Node].v[MatchIdx], SourceItem, heap))
    => /\ report'.Updated = report.Updated
       /\ detailedDiffs' = detailedDiffs
       /\ updates' = updates

C5_ExclusionInReport == [](C5_NoExcludedPath) /\ [][C5_ExcludedOnlyNotUpdated]_vars

\* under overwrite, a matched pair that differs in createdate only has been
\* processed with createdate excluded, a second pair was recorded as Updated
C5_Witness ==
    /\ overwrite /\ excludeAttributes = <<"createdate">>
    /\ pc = "render"
    /\ Len(EntitiesOf(initial.target, "form")) = 2
    /\ Len(EntitiesOf(initial.source, "form")) = 2
    /\ getUniqueId(initial.source["form"].v[1]) = getUniqueId(initial.target["form"].v[1])
    /\ Get(initial.source["form"].v[1], "createdate") = Str("d2")
    /\ Get(initial.source["form"].v[1], "title") = Str("T")
    /\ "form" \in DOMAIN report.Updated
    /\ report.Updated["form"] = <<getUniqueId(initial.target["form"].v[2])>>

(* C6 as stated.  Exclusion respected in copying: no entity of the merged    *)
(* target and no entity of updates holds, for a field of excludeAttributes,  *)
(* a value taken from a source entity, whether the source entity matched or  *)
(* was appended as new: every such value is one the target held at that      *)
(* place when the merge was called.  (Violated by the new-entity branch,     *)
(* which appends the source entity with all its fields.)                     *)
C6_ExclusionInCopying ==
    (round = 1) =>
        \A k \in DOMAIN target :
            target[k].t = "list" =>
                \A i \in 1..Len(target[k].v) : \A p \in 1..Len(target[k].v[i]) :
                    Includes(excludeAttributes, target[k].v[i][p][1]) =>
                        /\ i <= InitialLen(k)
                        /\ target[k].v[i][p][2]
                                = Get(initial.target[k].v[i], target[k].v[i][p][1])

\* every excluded field the entity e holds has the value it has in entity t
ExcludedFrom(e, t) ==
    \A p \in 1..Len(e) :
        Includes(excludeAttributes, e[p][1]) => e[p][2] = Get(t, e[p][1])

\* C6, matched: the step copies no excluded field of the source item, into
\* the target or into updates
C6_Matched ==
    (Processing /\ Stepped /\ MatchIdx # 0) =>
        /\ Len(target'[Node].v) = Len(target[Node].v)
        /\ \A i \in 1..Len(target[Node].v) :
                ExcludedFrom(target'[Node].v[i], target[Node].v[i])
        /\ \A u \in (Len(updates[Node]) + 1)..Len(updates'[Node]) :
                ExcludedFrom(updates'[Node][u], target[Node].v[MatchIdx])

\* C6, new: the appended entity is the source item, excluded fields included
C6_New ==
    (Processing /\ Stepped /\ MatchIdx = 0) =>
        /\ target'[Node].v[Len(target[Node].v) + 1] = SourceItem
        /\ updates'[Node][Len(updates[Node]) + 1] = SourceItem

(* C6 (amended).  Exclusion respected in copying, matched entities: when a   *)
(* source entity matches a target entity, for every field of                 *)
(* excludeAttributes the merged target entity and the entity pushed onto     *)
(* updates either lack the field or hold the value the target entity held    *)
(* before the step, with any flags; a source entity that is appended as new  *)
(* is copied with all its fields, the excluded ones included.                *)
C6_ExclusionInCopyingAmended == [][C6_Matched /\ C6_New]_vars

\* with overwrite and createdate excluded, a matched source entity holding
\* another createdate and another title has been merged and pushed onto updates
C6_Witness ==
    /\ overwrite /\ ~appendArrayValues /\ excludeAttributes = <<"createdate">>
    /\ pc = "item" /\ nodeIdx = 1 /\ Node = "form" /\ itemIdx = 1
    /\ Len(EntitiesOf(initial.target, "form")) > 0
    /\ Get(EntitiesOf(source, "form")[1], "createdate") = Str("d2")
    /\ getUniqueId(EntitiesOf(source, "form")[1])
            = getUniqueId(EntitiesOf(initial.target, "form")[1])
    /\ Get(EntitiesOf(target, "form")[1], "title") = Str("S")
    /\ Get(EntitiesOf(target, "form")[1], "createdate") # Str("d2")
    /\ Len(updates["form"]) = 1

\* the elements of S, from position j on, whose serialization is not in seen,
\* each serialization once, in the order of S
RECURSIVE FreshFrom(_, _, _)
FreshFrom(S, j, seen) ==
    IF j > Len(S) THEN <<>>
    ELSE IF Stringify(S[j], <<>>) \in seen THEN FreshFrom(S, j + 1, seen)
    ELSE <<S[j]>> \o FreshFrom(S, j + 1, seen \cup {Stringify(S[j], <<>>)})

C7_Union ==
    (Processing /\ Stepped /\ MatchIdx # 0 /\ appendArrayValues) =>
        LET t == target[Node].v[MatchIdx]
        IN  \A p \in 1..Len(SourceItem) :
                LET key == SourceItem[p][1]
                    sv == SourceItem[p][2]
                    tv == Get(t, key)
                IN  (~Includes(excludeAttributes, key)
                        /\ sv.t = "array" /\ tv.t = "array")
                    => /\ Get(target'[Node].v[MatchIdx], key) = tv
                       /\ heap'[tv.v] = heap[tv.v] \o
                            FreshFrom(heap[sv.v], 1,
                                {Stringify(heap[tv.v][n], <<>>) : n \in 1..Len(heap[tv.v])})

(* C7. Array union is append-only: with appendArrayValues = true and either  *)
(* value of overwrite, for every non-excluded top-level field that is an     *)
(* array in both the matched target entity and the source entity, the merged *)
(* entity's array is the target's array followed by exactly the source       *)
(* elements whose JSON serialization equals that of no element already in    *)
(* the array, in source order and without repeats.                           *)
C7_ArrayUnion == [][C7_Union]_vars

\* target tags ["1"] and source tags [1, 2, 2, "1"] were merged to ["1", 1, 2]
C7_Witness ==
    /\ appendArrayValues /\ overwrite
    /\ pc = "render"
    /\ <<"t", "workspace", 1, "tags">> \in DOMAIN heap
    /\ heap[<<"t", "workspace", 1, "tags">>] = <<Str("1"), Num(1), Num(2), Num(0)>>
    /\ Get(EntitiesOf(target, "workspace")[1], "tags") = Ref(<<"t", "workspace", 1, "tags">>)

(* C8. Report/updates consistency: at return, every id recorded under        *)
(* Updated for k has a non-empty diff list in detailedDiffs[k], and          *)
(* updates[k] exists and contains an entity with that id.  (The claim as     *)
(* stated; violated when the identifying field is excluded: the entity       *)
(* pushed onto updates is the filtered one and has lost its id.)             *)
C8_ReportUpdatesConsistent ==
    Returned =>
        \A k \in DOMAIN report.Updated : \A n \in 1..Len(report.Updated[k]) :
            LET id == report.Updated[k][n]
            IN  /\ Len(ChangesOf(detailedDiffs, k, id)) > 0
                /\ k \in DOMAIN result.updates
                /\ \E u \in 1..Len(result.updates[k]) :
                        getUniqueId(result.updates[k][u]) = id

(* C9. Idempotence of the no-op merge: after a merge with overwrite = false  *)
(* of a source that shares no id with the target, a second merge of the same *)
(* source into the resulting target appends no entity to any target[k] and   *)
(* records no id under New.  (The claim as stated; violated when the slug is *)
(* excluded and the source repeats an id: the first merge strips the slug of *)
(* the appended entity, which the second merge no longer finds.)             *)
C9_SecondMergeAddsNothing ==
    (/\ round = 2
     /\ pc \in {"node", "item", "render", "done", "raised"}
     /\ ~overwrite
     /\ \A k \in DOMAIN initial.source :
            InitialIds(initial.source, k) \cap InitialIds(initial.target, k) = {})
    => /\ \A k \in DOMAIN target :
            /\ k \in DOMAIN prev.target
            /\ target[k].t = "list" =>
                    /\ Len(target[k].v) = Len(prev.target[k].v)
                    /\ IdsOf(target[k].v) = IdsOf(prev.target[k].v)
       /\ report.New = EmptyMap

\* every value of the body is an array of entities
WellFormed(coll) == \A k \in DOMAIN coll : coll[k].t = "list"

(* C10. Format guard: mergeImportData returns undefined, without raising and *)
(* without modifying source or target, if and only if neither source nor     *)
(* target has a key that maps to an array; otherwise it returns a result     *)
(* object with updates, report and htmlReport.  (The claim as stated, over   *)
(* bodies whose values are all arrays of entities; violated by an entity     *)
(* identified by a numeric id, for which the text renderer raises.)          *)
C10_FormatGuard ==
    (round = 1 /\ WellFormed(initial.source) /\ WellFormed(initial.target)) =>
        /\ pc # "raised"
        /\ pc = "done" =>
            IF isImportFormat(initial.source) \/ isImportFormat(initial.target)
            THEN /\ result # Undefined
                 /\ DOMAIN result = {"updates", "report", "htmlReport"}
            ELSE /\ result = Undefined
                 /\ source = initial.source
                 /\ target = initial.target

----------------------------------------------------------------------------
(* Vocabulary of the properties of the route *)

\* the request has passed both validation middlewares
Accepted ==
    /\ pc \notin {"query", "body"}
    /\ \A i \in 1..Len(responses) : responses[i].status # 400

\* the handler has finished
Answered == pc = "end"

\* the merge called by the handler returned undefined
ReturnedUndefined == result = Undefined /\ thrown = ""

(* C11. Undefined result at the boundary: when a request passes validation   *)
(* and the merge returns undefined (neither body is in import format), the   *)
(* handler does not answer with the HTTP 500 error envelope.  (The claim as  *)
(* stated; violated: the handler reads mergeResult.updates of undefined      *)
(* inside its try block and the catch block answers 500.)                    *)
C11_UndefinedIsNotAnError ==
    (Answered /\ Accepted /\ ReturnedUndefined) =>
        \A i \in 1..Len(responses) : responses[i].status # 500

(* C12. Boundary response: every request that passes body and query          *)
(* validation receives exactly one response: HTTP 200 with a body holding    *)
(* updates, report and htmlReport when the merge returned a result, HTTP 500 *)
(* with a body { error: message } when the merge raised; nothing is sent     *)
(* before the handler finishes, and the handler always finishes.             *)
C12_OneResponse ==
    /\ Len(responses) <= 1
    /\ (pc = "end") <=> (Len(responses) = 1)
    /\ (pc \in {"done", "raised"}) => ENABLED Respond
    /\ (Answered /\ Accepted /\ result # Undefined) =>
            responses = <<[status |-> 200,
                           body |-> [updates |-> result.updates,
                                     report |-> result.report,
                                     htmlReport |-> result.htmlReport]]>>
    /\ (Answered /\ Accepted /\ thrown # "") =>
            responses = <<[status |-> 500, body |-> [error |-> thrown]]>>

\* a request whose merge raised in the text renderer was answered with 500
C12_Witness ==
    /\ Answered /\ Accepted
    /\ thrown = "item.split is not a function"
    /\ Len(responses) = 1
    /\ responses[1].status = 500
    /\ report.New # EmptyMap

\* the option as the query gave it, nothing when the query left it out
Given(name) ==
    IF name \in DOMAIN initial.query THEN {initial.query[name]} ELSE {}

(* C13. Boundary defaults: when the query omits an option the merge is       *)
(* invoked with overwrite = false, appendArrayValues = false and             *)
(* excludeAttributes = [createdate, createdby, modifieddate, modifiedby];    *)
(* when an option is given the merge is invoked with its validated value     *)
(* (the boolean the string denotes, the array as given).                     *)
C13_BoundaryDefaults ==
    (Accepted /\ round = 1) =>
        /\ overwrite = (Given("overwrite") = {"true"})
        /\ Given("overwrite") \subseteq {"true", "false"}
        /\ appendArrayValues = (Given("appendArrayValues") = {"true"})
        /\ Given("appendArrayValues") \subseteq {"true", "false"}
        /\ excludeAttributes =
                IF Given("excludeAttributes") = {}
                THEN <<"createdate", "createdby", "modifieddate", "modifiedby">>
                ELSE initial.query.excludeAttributes

\* a request without excludeAttributes, with overwrite=true and
\* appendArrayValues=false, whose merge ran with the default exclusions: a
\* matched pair that differs in createdate only was not recorded
C13_Witness ==
    /\ Accepted /\ pc = "done"
    /\ DOMAIN initial.query = {"overwrite", "appendArrayValues"}
    /\ initial.query.overwrite = "true"
    /\ initial.query.appendArrayValues = "false"
    /\ overwrite /\ ~appendArrayValues
    /\ Len(excludeAttributes) = 4
    /\ Len(EntitiesOf(initial.source, "form")) = 1
    /\ Len(EntitiesOf(initial.target, "form")) = 1
    /\ Get(initial.source["form"].v[1], "createdate") = Str("d2")
    /\ Get(initial.source["form"].v[1], "title") = Str("T")
    /\ getUniqueId(initial.source["form"].v[1]) = getUniqueId(initial.target["form"].v[1])
    /\ report.Updated = EmptyMap

\* the entities of result.updates[k], by value, none when the key is absent
UpdatesOf(k) ==
    IF k \in DOMAIN result.updates
    THEN [u \in 1..Len(result.updates[k]) |-> CopyEntity(result.updates[k][u], heap)]
    ELSE <<>>

(* C14 as stated.  Merge without overwrite reports only new entities: with   *)
(* overwrite = false and appendArrayValues = false, at return updates[k] is  *)
(* exactly the sequence of the source[k] entities whose id matches no entity *)
(* of the target as passed, in source order; no id is recorded under         *)
(* Updated and every entity of the target as passed is identical to what it  *)
(* was.  (Violated when source[k] repeats an id that the target lacks: the   *)
(* second entity matches the first, appended one, and is not in updates.)    *)
C14_OnlyNewReported ==
    (Returned /\ round = 1 /\ ~overwrite /\ ~appendArrayValues) =>
        /\ report.Updated = EmptyMap
        /\ \A k \in DOMAIN initial.source :
            /\ UpdatesOf(k) =
                    SelectSeq(initial.source[k].v,
                              LAMBDA e : getUniqueId(e) \notin InitialIds(initial.target, k))
            /\ \A i \in 1..InitialLen(k) :
                    CopyEntity(target[k].v[i], heap) = initial.target[k].v[i]

\* C14, the step: without overwrite and appendArrayValues an item that matches
\* nothing is pushed onto updates, a matched item changes nothing at all
C14_Step ==
    (Processing /\ Stepped /\ ~overwrite /\ ~appendArrayValues) =>
        IF MatchIdx = 0
        THEN /\ updates' = [updates EXCEPT ![Node] = Append(@, SourceItem)]
             /\ report'.Updated = report.Updated
             /\ detailedDiffs' = detailedDiffs
        ELSE /\ updates' = updates
             /\ report' = report
             /\ detailedDiffs' = detailedDiffs
             /\ target' = target
             /\ heap' = heap

\* C14, the return: result.updates is what the steps collected
C14_Return == (pc = "render" /\ pc' = "done") => result'.updates = updates

C14_NoUpdated == (~overwrite /\ ~appendArrayValues) => report.Updated = EmptyMap

(* C14 (amended).  Merge without overwrite reports only new entities: with   *)
(* overwrite = false and appendArrayValues = false, updates[k] consists      *)
(* exactly of the source[k] entities whose id matched no entity of target[k] *)
(* at the moment they were processed (the target as passed plus the entities *)
(* appended from earlier positions of source[k]), in source order; no id is  *)
(* recorded under Updated, and processing a matched source entity leaves the *)
(* target, the report and updates as they were.                              *)
C14_OnlyNewReportedAmended ==
    [](C14_NoUpdated) /\ [][C14_Step /\ C14_Return]_vars

\* without overwrite and appendArrayValues, a matched source entity with
\* another title and a new entity were merged: only the new one is in updates
C14_Witness ==
    /\ Returned /\ ~overwrite /\ ~appendArrayValues
    /\ Len(EntitiesOf(initial.source, "form")) = 2
    /\ Len(EntitiesOf(initial.target, "form")) = 1
    /\ getUniqueId(initial.source["form"].v[1]) = getUniqueId(initial.target["form"].v[1])
    /\ Get(initial.source["form"].v[1], "title") = Str("S")
    /\ getUniqueId(initial.source["form"].v[2]) # getUniqueId(initial.target["form"].v[1])
    /\ UpdatesOf("form") = <<initial.source["form"].v[2]>>
    /\ Get(target["form"].v[1], "title") = Str("T")

(* C15 as stated.  Updates mirror the merged target: at return every entity  *)
(* of updates[k] is equal in content to the entity with the same id in the   *)
(* final target[k], and updates[k] holds one entry per id that was added or  *)
(* changed.  (Violated when source[k] repeats an id: updates[k] keeps the    *)
(* version pushed for the first entity next to the one pushed for the        *)
(* second.)                                                                  *)
C15_UpdatesMirrorTarget ==
    Returned =>
        \A k \in DOMAIN result.updates :
            /\ DistinctIds(result.updates[k])
            /\ \A u \in 1..Len(result.updates[k]) :
                \E i \in 1..Len(target[k].v) :
                    /\ getUniqueId(target[k].v[i]) = getUniqueId(result.updates[k][u])
                    /\ CopyEntity(target[k].v[i], heap) = UpdatesOf(k)[u]

\* the position of target[node] the item in progress is merged into
MergePos == IF MatchIdx = 0 THEN Len(target[Node].v) + 1 ELSE MatchIdx

\* C15, the push: an item recorded as New or Updated pushes exactly one entry,
\* the entity now stored at its position of target[node]; an item that is not
\* recorded pushes nothing; the earlier entries stay
C15_Pushed ==
    (Processing /\ Stepped) =>
        /\ updates' = [updates EXCEPT ![Node] =
                IF report' # report
                THEN Append(@, target'[Node].v[MergePos])
                ELSE @]
        /\ MergePos <= Len(target'[Node].v)

\* C15, the frame: the step changes no other position of the target
C15_OthersKept ==
    (Processing /\ Stepped) =>
        /\ \A k \in DOMAIN target : k # Node => target'[k] = target[k]
        /\ \A i \in 1..Len(target[Node].v) :
                i # MergePos =>
                    /\ target'[Node].v[i] = target[Node].v[i]
                    /\ CopyEntity(target'[Node].v[i], heap')
                            = CopyEntity(target[Node].v[i], heap)

\* C15, outside the items: the target and the entries of updates stay
C15_Kept ==
    (~(Processing /\ Stepped) /\ pc \in {"item", "render"}) =>
        /\ target' = target
        /\ heap' = heap
        /\ \A k \in DOMAIN updates' : updates'[k] = updates[k]
        /\ (pc' = "done" /\ result' # Undefined) => result'.updates = updates'

(* C15 (amended).  Updates mirror the merged target, position by position:   *)
(* whenever a source entity is recorded as New or Updated exactly one entry  *)
(* is pushed onto updates[k], and it is the entity stored at that moment in  *)
(* target[k] at the position the source entity matched or was appended to;   *)
(* processing a source entity changes no other position of target[k].  So at *)
(* return an entry of updates[k] equals in content the entity at its         *)
(* position in the final target[k] unless a later entity of source[k]        *)
(* matched the same position; updates[k] then also holds the earlier         *)
(* version, one entry per source entity recorded and not one per id.         *)
C15_UpdatesMirrorTargetAmended == [][C15_Pushed /\ C15_OthersKept /\ C15_Kept]_vars

\* under overwrite a matched entity was replaced and a new one appended; both
\* entries of updates are the entities of the final target, in source order
C15_Witness ==
    /\ Returned /\ overwrite /\ ~appendArrayValues
    /\ Len(EntitiesOf(initial.target, "form")) = 1
    /\ Len(EntitiesOf(initial.source, "form")) = 2
    /\ report.Updated # EmptyMap /\ report.New # EmptyMap
    /\ "form" \in DOMAIN report.Updated /\ "form" \in DOMAIN report.New
    /\ "form" \in DOMAIN result.updates
    /\ Len(result.updates["form"]) = 2
    /\ result.updates["form"][1] = target["form"].v[1]
    /\ result.updates["form"][2] = target["form"].v[2]
    /\ Get(target["form"].v[1], "title") = Str("S")

(* C16. The engine tolerates any entity shape: for every source and target   *)
(* accepted by the boundary schema, at least one of them in import format,   *)
(* reconciliation and both renderers complete and return a result without    *)
(* raising, whatever the types of the entities' fields, slug, key and id     *)
(* included.  (The claim as stated; violated by an entity whose identifier   *)
(* is a number: both renderers call item.split on the recorded id.)          *)
C16_AnyShapeTolerated ==
    (Accepted /\ (isImportFormat(initial.source) \/ isImportFormat(initial.target))) =>
        /\ pc # "raised"
        /\ thrown = ""
        /\ \A i \in 1..Len(responses) : responses[i].status = 200

(* C17. Independence of concurrent requests: whatever the order in which    *)
(* requests arrive, and also when they arrive while another one is being     *)
(* answered, a request is routed only when the chain of the request before   *)
(* it has ended, and the response to a request is the response the same      *)
(* request gets from a server that has answered nothing before (the first    *)
(* request of the server): nothing of a call carries over to a later call.   *)

\* the exchanges completed so far, the one of the request in progress included
Exchanges ==
    IF pc = "end" THEN Append(served, [request |-> initial, responses |-> responses])
    ELSE served

C17_SameAnswer ==
    \A i, j \in 1..Len(Exchanges) :
        Exchanges[i].request = Exchanges[j].request =>
            Exchanges[i].responses = Exchanges[j].responses

C17_NoInterleaving ==
    (served' # served \/ (pc' = "query" /\ pc # "query")) =>
        /\ pc = "end"
        /\ Len(responses) = 1
        /\ served' = Append(served, [request |-> initial, responses |-> responses])
        /\ responses' = <<>>

C17_Independence == [](C17_SameAnswer) /\ [][C17_NoInterleaving]_vars

C17_Witness ==
    /\ Len(Exchanges) = 3
    /\ Exchanges[1].request = Exchanges[3].request
    /\ Exchanges[2].request # Exchanges[1].request
    /\ Exchanges[1].responses[1].status = 200
    /\ Exchanges[2].responses[1].status = 200
    /\ DOMAIN Exchanges[2].responses[1].body.updates # {}
    /\ Exchanges[3].responses = Exchanges[1].responses

(* C18. Patch semantics under overwrite: with overwrite = true and either    *)
(* value of appendArrayValues, processing a source entity that matches a     *)
(* target entity leaves every non-excluded field that the target entity has  *)
(* and the source entity lacks in the merged entity, with the value it had   *)
(* (an array with the elements it had): no target-only field is deleted.     *)
C18_TargetOnlyFieldsKept ==
    [][(Processing /\ Stepped /\ overwrite /\ MatchIdx # 0) =>
        LET before == target[Node].v[MatchIdx]
            after == target'[Node].v[MatchIdx]
        IN  \A p \in 1..Len(before) :
                (~Includes(excludeAttributes, before[p][1])
                    /\ ~Has(SourceItem, before[p][1]))
                => /\ Has(after, before[p][1])
                   /\ ByValue(Get(after, before[p][1]), heap')
                        = ByValue(before[p][2], heap)]_vars

\* a source entity without tags has been merged with overwrite into the
\* target entity of its id, which still has the tags it had
C18_Witness ==
    /\ overwrite
    /\ round = 1
    /\ pc = "item" /\ nodeIdx = 1 /\ Node = "form" /\ itemIdx = 1
    /\ Len(EntitiesOf(initial.target, "form")) > 0
    /\ Len(EntitiesOf(initial.source, "form")) > 0
    /\ ~Has(EntitiesOf(initial.source, "form")[1], "tags")
    /\ Get(EntitiesOf(initial.source, "form")[1], "title") = Str("S")
    /\ getUniqueId(EntitiesOf(initial.source, "form")[1])
            = getUniqueId(EntitiesOf(initial.target, "form")[1])
    /\ Has(EntitiesOf(initial.target, "form")[1], "tags")
    /\ Get(EntitiesOf(target, "form")[1], "title") = Str("S")
    /\ Has(EntitiesOf(target, "form")[1], "tags")
    /\ ByValue(Get(EntitiesOf(target, "form")[1], "tags"), heap) = Arr(<<Num(1)>>)

(* C19. Diff-list post-processing: of the diff list built for a matched     *)
(* entity, an Edited entry is removed if and only if its path without its    *)
(* last element is the path of an array field that received at least one     *)
(* Array-element-added entry in the same pass; every other entry is kept,    *)
(* in its original order.  (The claim as stated; violated when the array     *)
(* entry of the field reports a removed element: the Edited entries of the   *)
(* field's elements are dropped although nothing was added to the array.)    *)

\* the diff list of the item in progress as it is before the post-processing
RawDiffs ==
    LET tf == targetItemFiltered(target[Node].v[MatchIdx], excludeAttributes)
        sf == sourceItemFiltered(SourceItem, excludeAttributes)
        d0 == InitialDiffs(overwrite, tf, sf, heap)
    IN  IF appendArrayValues THEN AppendLoop(Keys(sf), tf, sf, heap, d0).itemDiffs
        ELSE d0

\* the array field at path received an Array-element-added entry
ElementAdded(diffs, path) ==
    \E i \in 1..Len(diffs) :
        /\ diffs[i].kind = "A"
        /\ diffs[i].item.kind = "N"
        /\ diffs[i].path = path

C19_EditedDroppedOnlyForAdditions ==
    [][(Processing /\ Stepped /\ MatchIdx # 0 /\ Len(RawDiffs) > 0) =>
        /\ Node \in DOMAIN detailedDiffs'
        /\ ToKey(getUniqueId(SourceItem)) \in DOMAIN detailedDiffs'[Node]
        /\ detailedDiffs'[Node][ToKey(getUniqueId(SourceItem))] =
                SelectSeq(RawDiffs, LAMBDA d :
                    ~(d.kind = "E"
                        /\ ElementAdded(RawDiffs, SubSeq(d.path, 1, Len(d.path) - 1))))]_vars

(* C20. No empty or undefined entries in updates: at the return of a merge,  *)
(* updates has the key k if and only if at least one entity of source[k] was *)
(* recorded as New or Updated; no key of updates maps to an empty sequence   *)
(* and every entry of a sequence of updates is an entity.                    *)
C20_UpdatesKeys ==
    Returned =>
        /\ result.updates = updates
        /\ \A k \in DOMAIN source \cup DOMAIN updates :
                k \in DOMAIN updates <=>
                    \/ (k \in DOMAIN report.New /\ Len(report.New[k]) > 0)
                    \/ (k \in DOMAIN report.Updated /\ Len(report.Updated[k]) > 0)
        /\ \A k \in DOMAIN updates :
                /\ Len(updates[k]) > 0
                /\ \A u \in 1..Len(updates[k]) : Len(updates[k][u]) > 0

\* both collections of the source were processed: an entity of form was
\* recorded, the one of workspace was not, and only form is a key of updates
C20_Witness ==
    /\ Returned
    /\ round = 1
    /\ DOMAIN source = {"form", "workspace"}
    /\ Len(EntitiesOf(source, "workspace")) > 0
    /\ "workspace" \notin DOMAIN report.New
    /\ "workspace" \notin DOMAIN report.Updated
    /\ DOMAIN updates = {"form"}
    /\ DOMAIN result.updates = {"form"}

(* C21. Index of appended array elements: every Array entry that the array  *)
(* union pushes for a field f carries the position of the appended element   *)
(* in the merged array of f as the target holds it after the step; the       *)
(* index is at least the length the target array had, and two entries of     *)
(* the same field never carry the same index.                                *)

\* the entries the append step pushes onto the diff list of the item in progress
UnionEntries ==
    LET tf == targetItemFiltered(target[Node].v[MatchIdx], excludeAttributes)
        sf == sourceItemFiltered(SourceItem, excludeAttributes)
        d0 == InitialDiffs(overwrite, tf, sf, heap)
    IN  SubSeq(RawDiffs, Len(d0) + 1, Len(RawDiffs))

C21_AppendedIndex ==
    [][(Processing /\ Stepped /\ appendArrayValues /\ MatchIdx # 0) =>
        LET before == target[Node].v[MatchIdx]
            after == target'[Node].v[MatchIdx]
            recorded == detailedDiffs'[Node][ToKey(getUniqueId(SourceItem))]
        IN  \A n \in 1..Len(UnionEntries) :
                LET e == UnionEntries[n]
                    f == e.path[1].v
                    merged == heap'[Get(after, f).v]
                IN  /\ e.kind = "A" /\ e.item.kind = "N" /\ Len(e.path) = 1
                    /\ Includes(recorded, e)
                    /\ Get(after, f).t = "array"
                    /\ e.index >= Len(heap[Get(before, f).v])
                    /\ e.index < Len(merged)
                    /\ merged[e.index + 1] = e.item.rhs
                    /\ \A m \in 1..Len(UnionEntries) :
                            (m # n /\ UnionEntries[m].path = e.path)
                                => UnionEntries[m].index # e.index]_vars

\* the workspace entity has been merged with appendArrayValues: 1 and 2 were
\* appended to its tags ["1"] and recorded at the indices 1 and 2
C21_Witness ==
    /\ appendArrayValues
    /\ round = 1
    /\ pc = "item" /\ Node = "workspace" /\ itemIdx = 1
    /\ Len(EntitiesOf(initial.target, "workspace")) > 0
    /\ heap[<<"t", "workspace", 1, "tags">>] = <<Str("1"), Num(1), Num(2), Num(0)>>
    /\ "w" \in DOMAIN detailedDiffs["workspace"]
    /\ Includes(detailedDiffs["workspace"]["w"],
                DiffA(<<Str("tags")>>, 1, [kind |-> "N", rhs |-> Num(1)]))
    /\ Includes(detailedDiffs["workspace"]["w"],
                DiffA(<<Str("tags")>>, 2, [kind |-> "N", rhs |-> Num(2)]))

(* C22. Text report of new entities: in the text report a merge returns,     *)
(* the line of an id listed under New is followed by no diff-detail line;    *)
(* diff-detail lines follow only the ids listed under Updated, and they are  *)
(* the lines of the diff entries recorded for that id and collection key.    *)
(* (The claim as stated; violated when a New id holds a colon and its part   *)
(* before the colon is the id of an Updated entity of the same key.)         *)

\* the lines the claim allows for the ids of a report type and a key
DetailLines(ty, node) ==
    Flatten([i \in 1..Len(report[ty][node]) |->
        <<"    - " \o ToKey(report[ty][node][i])>>
        \o (IF ty = "Updated"
            THEN [k \in 1..Len(ChangesOf(detailedDiffs, node, report[ty][node][i])) |->
                    DiffLine(ChangesOf(detailedDiffs, node, report[ty][node][i])[k], heap)]
            ELSE <<>>)])

C22_DetailsOnlyUnderUpdated ==
    Returned =>
        result.report =
            Flatten([t \in 1..Len(ReportTypes) |->
                LET ty == ReportTypes[t]
                    nodes == NodeKeys(report[ty])
                IN  IF Len(nodes) = 0 THEN <<>>
                    ELSE <<ty \o ":">>
                         \o Flatten([n \in 1..Len(nodes) |->
                                <<"  " \o nodes[n] \o ":">> \o DetailLines(ty, nodes[n])])])

(* C23. Text line for an array change: for every Array entry recorded for an *)
(* Updated id that reports an added element, with path p, index i and added *)
(* value v, the text report holds the line saying that array p was modified  *)
(* at index i with added value v in its JSON form, for every JSON value v.   *)
(* (The claim as stated; violated by the added value 0: the line is built    *)
(* from item.rhs || item.lhs and prints undefined.)                          *)
C23_AddedValueLine ==
    Returned =>
        \A k \in DOMAIN report.Updated : \A n \in 1..Len(report.Updated[k]) :
            LET changes == ChangesOf(detailedDiffs, k, report.Updated[k][n])
            IN  \A c \in 1..Len(changes) :
                    (changes[c].kind = "A" /\ changes[c].item.kind = "N") =>
                        Includes(result.report,
                                 "      * Array " \o JoinPath(changes[c].path)
                                    \o " modified at index " \o ToString(changes[c].index)
                                    \o ": Added value "
                                    \o Stringify(changes[c].item.rhs, heap))

(* C24. Pristine snapshots: once the call has taken them, targetCopy is      *)
(* equal to the target as it was at the call and sourceCopy to the source as *)
(* it was at the call, through the reconciliation loop and both renderers,   *)
(* whatever the merge does to the target and its arrays; no step after the   *)
(* call assigns either copy.                                                 *)

\* the call has taken its copies
CopiesTaken == pc # "call" /\ (isImportFormat(source) \/ isImportFormat(target))

\* a collection by value: every array reference replaced by its elements
Snapshot(coll, h) ==
    [n \in DOMAIN coll |->
        IF coll[n].t = "list"
        THEN List([i \in 1..Len(coll[n].v) |-> CopyEntity(coll[n].v[i], h)])
        ELSE coll[n]]

C24_CopiesEqualInputs ==
    (CopiesTaken /\ round = 1) =>
        /\ Snapshot(targetCopy, heap) = initial.target
        /\ Snapshot(sourceCopy, heap) = initial.source

C24_CopiesNotAssigned ==
    (pc # "call") => UNCHANGED <<targetCopy, sourceCopy>>

C24_PristineSnapshots == [](C24_CopiesEqualInputs) /\ [][C24_CopiesNotAssigned]_vars

\* a merge has returned after changing an entity of the target and appending
\* to one of its arrays, the HTML report shows an "after" that differs from
\* its "before", and the copy of the target is what the target was
C24_Witness ==
    /\ Returned
    /\ round = 1
    /\ Snapshot(target, heap) # initial.target
    /\ <<"t", "workspace", 1, "tags">> \in DOMAIN heap
    /\ heap[<<"t", "workspace", 1, "tags">>] = <<Str("1"), Num(1), Num(2), Num(0)>>
    /\ targetCopy = initial.target
    /\ sourceCopy = initial.source
    /\ \E i \in 1..Len(result.htmlReport) :
            /\ "after" \in DOMAIN result.htmlReport[i]
            /\ result.htmlReport[i].after # result.htmlReport[i].before

(* C25 as stated: the identifier of an entity is the value of its slug field *)
(* if it has one, otherwise of its key field if it has one, otherwise of its *)
(* id field, and a source entity matches an entity of target[k] (it is       *)
(* merged into it and not appended) if and only if their identifiers are     *)
(* equal with the same type.  (Violated by an entity whose slug is the empty *)
(* string: its key identifies it.)                                           *)
FirstPresent(e) ==
    IF Has(e, "slug") THEN Get(e, "slug")
    ELSE IF Has(e, "key") THEN Get(e, "key")
    ELSE Get(e, "id")

\* the step has appended the source item to target[node]
AppendedItem == Len(target'[Node].v) = Len(target[Node].v) + 1

C25_IdentifierByPresence ==
    [][(Processing /\ Stepped) =>
        /\ AppendedItem \/ Len(target'[Node].v) = Len(target[Node].v)
        /\ ~AppendedItem <=>
                \E i \in 1..Len(target[Node].v) :
                    FirstPresent(target[Node].v[i]) = FirstPresent(SourceItem)]_vars

(* C25, amended: the identifier of an entity is the value of its slug field  *)
(* if that value is truthy, otherwise the value of its key field if that is  *)
(* truthy, otherwise the value of its id field (undefined when it has none); *)
(* a field that is absent or holds the empty string or 0 is passed over.  A  *)
(* source entity is merged into target[k] and not appended if and only if    *)
(* some entity of target[k] has an identifier equal to its own with the same *)
(* type, and it is then merged into the first such entity.                   *)
FirstTruthy(e) ==
    IF Has(e, "slug") /\ Get(e, "slug") \notin {Str(""), Num(0), Undefined}
    THEN Get(e, "slug")
    ELSE IF Has(e, "key") /\ Get(e, "key") \notin {Str(""), Num(0), Undefined}
    THEN Get(e, "key")
    ELSE IF Has(e, "id") THEN Get(e, "id") ELSE Undefined

C25_IdentifierByTruthiness ==
    [][(Processing /\ Stepped) =>
        LET same == {i \in 1..Len(target[Node].v) :
                        FirstTruthy(target[Node].v[i]) = FirstTruthy(SourceItem)}
        IN  /\ AppendedItem \/ Len(target'[Node].v) = Len(target[Node].v)
            /\ ~AppendedItem <=> same # {}
            /\ AppendedItem => target'[Node].v[Len(target'[Node].v)] = SourceItem
            /\ \A i \in 1..Len(target[Node].v) :
                    (\E j \in same : j < i) \/ i \notin same
                        => target'[Node].v[i] = target[Node].v[i]]_vars

\* the entity with the empty slug and the key "a" has been merged with
\* overwrite into the target entity whose slug is "a", and not appended
C25_Witness ==
    /\ overwrite /\ ~appendArrayValues
    /\ excludeAttributes = <<>>
    /\ round = 1
    /\ pc = "item" /\ nodeIdx = 1 /\ Node = "form" /\ itemIdx = 1
    /\ Len(EntitiesOf(initial.source, "form")) > 0
    /\ EntitiesOf(initial.source, "form")[1] = EmptySlugEntity
    /\ Len(EntitiesOf(initial.target, "form")) = 1
    /\ Get(EntitiesOf(initial.target, "form")[1], "slug") = Str("a")
    /\ Len(EntitiesOf(target, "form")) = 1
    /\ Get(EntitiesOf(target, "form")[1], "key") = Str("a")
    /\ Get(EntitiesOf(target, "form")[1], "title") = Str("S")

(* C26. Excluded fields of the target are left alone: when a source entity   *)
(* matches a target entity, every field named in excludeAttributes that the  *)
(* target entity holds before the step is held with the same value by the    *)
(* merged target entity, for every combination of overwrite and              *)
(* appendArrayValues.  (The claim as stated; violated with overwrite or      *)
(* appendArrayValues: the entity stored is built from the filtered target    *)
(* entity and has lost the excluded fields.)                                 *)
C26_ExcludedFieldsKept ==
    [][(Processing /\ Stepped /\ MatchIdx # 0) =>
        LET before == target[Node].v[MatchIdx]
            after == target'[Node].v[MatchIdx]
        IN  \A p \in 1..Len(before) :
                Includes(excludeAttributes, before[p][1]) =>
                    /\ Has(after, before[p][1])
                    /\ ByValue(Get(after, before[p][1]), heap')
                            = ByValue(before[p][2], heap)]_vars

(* C27. Frame of the merge on the target: after a merge, every collection    *)
(* key of the target that is not a key of the source maps to the sequence it *)
(* mapped to; within target[k] every entity whose id matches no entity of    *)
(* source[k] is unchanged; the entities that existed before the merge keep   *)
(* their positions (a matched entity is replaced in place), and the new      *)
(* entities are appended after them, one at the end per unmatched source     *)
(* entity, in the order the source is processed.                             *)

\* at return: the keys the source lacks and the unmatched entities
C27_Untouched ==
    (Returned /\ round = 1) =>
        /\ \A k \in DOMAIN initial.target :
                k \notin DOMAIN source =>
                    /\ k \in DOMAIN target
                    /\ Snapshot(target, heap)[k] = initial.target[k]
        /\ \A k \in DOMAIN initial.target \cap DOMAIN source :
                initial.target[k].t = "list" =>
                    /\ target[k].t = "list"
                    /\ Len(target[k].v) >= InitialLen(k)
                    /\ \A i \in 1..InitialLen(k) :
                            getUniqueId(initial.target[k].v[i]) \notin IdsOf(source[k].v)
                                => CopyEntity(target[k].v[i], heap) = initial.target[k].v[i]

\* a step: the matched entity is replaced where it is, an unmatched item goes
\* to the end, and every other position holds what it held
C27_InPlace ==
    (Processing /\ Stepped) =>
        /\ \A k \in DOMAIN target : k # Node => (k \in DOMAIN target' /\ target'[k] = target[k])
        /\ \A i \in 1..Len(target[Node].v) :
                i # MatchIdx =>
                    /\ target'[Node].v[i] = target[Node].v[i]
                    /\ CopyEntity(target'[Node].v[i], heap') = CopyEntity(target[Node].v[i], heap)
        /\ IF MatchIdx = 0
           THEN target'[Node].v = Append(target[Node].v, SourceItem)
           ELSE /\ Len(target'[Node].v) = Len(target[Node].v)
                /\ \A p \in 1..Len(target[Node].v[MatchIdx]) :
                        ~Includes(excludeAttributes, target[Node].v[MatchIdx][p][1])
                            => Has(target'[Node].v[MatchIdx], target[Node].v[MatchIdx][p][1])

\* the other steps leave the entities of the target alone
C27_OtherSteps ==
    (~Processing) =>
        \A k \in DOMAIN target : k \in DOMAIN target' /\ target'[k] = target[k]

\* the items of source[k] are processed in the order of source[k]
C27_SourceOrder == itemIdx' \in {0, itemIdx, itemIdx + 1}

C27_Frame ==
    [](C27_Untouched) /\ [][C27_InPlace /\ C27_OtherSteps /\ C27_SourceOrder]_vars

\* a merge with overwrite has returned: the entity a was replaced in place,
\* the unmatched entity b is as it was, the new entity a:b was appended
\* after them, and the workspaces, which the source lacks, are as they were
C27_Witness ==
    /\ Returned
    /\ round = 1
    /\ overwrite
    /\ DOMAIN source = {"form"}
    /\ DOMAIN initial.target = {"form", "workspace"}
    /\ InitialLen("form") = 2
    /\ Len(EntitiesOf(source, "form")) = 2
    /\ getUniqueId(source["form"].v[1]) = Str("a")
    /\ source["form"].v[2] = ColonIdEntity
    /\ Len(EntitiesOf(target, "form")) = 3
    /\ getUniqueId(initial.target["form"].v[1]) = Str("a")
    /\ getUniqueId(initial.target["form"].v[2]) = Str("b")
    /\ Get(target["form"].v[1], "title") = Str("S")
    /\ CopyEntity(target["form"].v[2], heap) = initial.target["form"].v[2]
    /\ target["form"].v[3] = ColonIdEntity

(* C28 as stated: the source is read-only: after mergeImportData returns,    *)
(* the source collection is equal to what it was at the call; no entity of   *)
(* the source gains, loses or changes a field and no array inside a source   *)
(* entity changes.  (Violated with appendArrayValues when source[k] repeats  *)
(* an id: the first entity was appended to the target by reference and the   *)
(* second one is merged into its arrays.)                                    *)
C28_SourceReadOnly ==
    (Returned /\ round = 1) => Snapshot(source, heap) = initial.source

\* the arrays of the source entities
SourceArrays == {a \in DOMAIN heap : a[1] = "s"}

\* s is t with elements added at the end
Extends(s, t) == Len(s) > Len(t) /\ SubSeq(s, 1, Len(t)) = t

\* C28, a step: an array of a source entity changes only when the item in
\* progress is merged with appendArrayValues into an entity that an earlier
\* item of the source appended, and the array then grows at its end
C28_ArraysStep ==
    /\ source' = source
    /\ DOMAIN heap' = DOMAIN heap
    /\ \A a \in SourceArrays :
            heap'[a] # heap[a] =>
                /\ Processing /\ Stepped /\ appendArrayValues
                /\ MatchIdx > InitialLen(Node)
                /\ \E p \in 1..Len(target[Node].v[MatchIdx]) :
                        target[Node].v[MatchIdx][p][2] = Ref(a)
                /\ Extends(heap'[a], heap[a])

\* C28, when no id is repeated or nothing is appended to arrays
C28_Unshared ==
    (round = 1 /\ (~appendArrayValues
                    \/ \A k \in DOMAIN source : DistinctIds(EntitiesOf(source, k)))) =>
        Snapshot(source, heap) = initial.source

(* C28, amended: no entity of the source gains, loses or changes a field,    *)
(* and the arrays inside the source entities are equal at return to what     *)
(* they were at the call whenever appendArrayValues is false or no source[k] *)
(* repeats an id.  With appendArrayValues, an array of a source entity       *)
(* changes only when a later entity of source[k] matches the entity that an  *)
(* earlier one appended to the target by reference: the elements of the      *)
(* later entity's array that it lacks are appended to it, nothing is removed *)
(* or reordered.                                                             *)
C28_SourceReadOnlyAmended == [](C28_Unshared) /\ [][C28_ArraysStep]_vars

\* a merge with appendArrayValues has returned: the third entity of the
\* source was merged into the second one, which the target holds by
\* reference, and the tags [1] of the second source entity have become [1, 2]
C28_Witness ==
    /\ Returned
    /\ appendArrayValues
    /\ round = 1
    /\ "form" \in DOMAIN initial.source
    /\ initial.source["form"] = RepeatedIdForm
    /\ Len(EntitiesOf(target, "form")) > 0
    /\ <<"s", "form", 2, "tags">> \in DOMAIN heap
    /\ heap[<<"s", "form", 2, "tags">>] = <<Num(1), Num(2)>>
    /\ Get(target["form"].v[Len(target["form"].v)], "tags") = Ref(<<"s", "form", 2, "tags">>)
    /\ Snapshot(source, heap) # initial.source

(* C29. The report describes the merged data: when a source entity is        *)
(* recorded as Updated, the new value of each Edited or New-field entry of   *)
(* its diff list is the value the merged entity holds at that path, the path *)
(* of each Deleted-field entry is absent from the merged entity, the value   *)
(* of each added-element Array entry is at its index in the merged array,    *)
(* and applying the entries in order to the target entity as it was yields   *)
(* the merged entity on the non-excluded fields.  (The claim as stated;      *)
(* violated with overwrite: the fields the source entity lacks are recorded  *)
(* as Deleted and the merged entity keeps them.)                             *)

\* the value an entity holds at the path of a diff entry, by value
ValueAt(e, path, h) ==
    IF Len(path) = 1 THEN ByValue(Get(e, path[1].v), h)
    ELSE LET arr == Get(e, path[1].v)
         IN  IF arr.t = "array" /\ path[2].v < Len(h[arr.v])
             THEN h[arr.v][path[2].v + 1] ELSE Undefined

C29_ReportDescribesMerge ==
    [][(Processing /\ Stepped /\ MatchIdx # 0
            /\ report'.Updated # report.Updated) =>
        LET before == target[Node].v[MatchIdx]
            merged == target'[Node].v[MatchIdx]
            changes == detailedDiffs'[Node][ToKey(getUniqueId(SourceItem))]
        IN  /\ \A c \in 1..Len(changes) :
                LET d == changes[c]
                IN  CASE d.kind \in {"E", "N"} ->
                            ValueAt(merged, d.path, heap') = ByValue(d.rhs, heap')
                      [] d.kind = "D" -> ~Has(merged, d.path[1].v)
                      [] OTHER ->
                            d.item.kind = "N" =>
                                ValueAt(merged, d.path \o <<Num(d.index)>>, heap') = d.item.rhs
            /\ ApplyAll(CopyEntity(filterObject(before, excludeAttributes), heap), changes, heap')
                    = CopyEntity(filterObject(merged, excludeAttributes), heap')]_vars

(* C30 as stated: each source entity is classified once: at return no id is *)
(* recorded both under New and under Updated for the same collection key,    *)
(* and no id is recorded twice under the same heading.  (Violated when       *)
(* source[k] repeats an id: each of the entities is recorded, under the      *)
(* same id.)                                                                 *)

\* the ids recorded for a key under a heading, none when the key is absent
RecordedIds(rep, ty, k) == IF k \in DOMAIN rep[ty] THEN rep[ty][k] ELSE <<>>

\* a sequence holds no value twice
NoRepeat(s) == \A i, j \in 1..Len(s) : i # j => s[i] # s[j]

C30_ClassifiedOnce ==
    (Returned /\ round = 1) =>
        \A k \in DOMAIN source :
            NoRepeat(RecordedIds(report, "New", k) \o RecordedIds(report, "Updated", k))

\* C30, a step: the item in progress is the next one of source[node], and it
\* is recorded as New, or recorded as Updated, or not recorded
C30_OneOutcome ==
    (Processing /\ Stepped) =>
        LET id == getUniqueId(SourceItem)
            new == RecordedIds(report, "New", Node)
            upd == RecordedIds(report, "Updated", Node)
            new2 == RecordedIds(report', "New", Node)
            upd2 == RecordedIds(report', "Updated", Node)
        IN  /\ itemIdx' = itemIdx + 1
            /\ \/ (new2 = Append(new, id) /\ upd2 = upd /\ MatchIdx = 0)
               \/ (new2 = new /\ upd2 = Append(upd, id) /\ MatchIdx # 0)
               \/ (new2 = new /\ upd2 = upd /\ MatchIdx # 0)
            /\ \A k \in DOMAIN source :
                    k # Node =>
                        /\ RecordedIds(report', "New", k) = RecordedIds(report, "New", k)
                        /\ RecordedIds(report', "Updated", k)
                                = RecordedIds(report, "Updated", k)

\* C30, the other steps: nothing is recorded and no item is skipped
C30_NothingElseRecords ==
    (pc # "call" /\ ~Processing) => (report' = report /\ itemIdx' \in {0, itemIdx})

\* C30, at return: what is recorded when no id is repeated
C30_NoRepeatedRecord ==
    (Returned /\ round = 1) =>
        \A k \in DOMAIN source :
            /\ Len(RecordedIds(report, "New", k)) + Len(RecordedIds(report, "Updated", k))
                    <= Len(EntitiesOf(source, k))
            /\ DistinctIds(EntitiesOf(source, k)) =>
                    NoRepeat(RecordedIds(report, "New", k)
                                \o RecordedIds(report, "Updated", k))

(* C30, amended: every entity of source[k] is processed exactly once, in the *)
(* order of source[k], and ends in exactly one outcome: recorded as New      *)
(* when it matches no entity of target[k] at that moment, recorded as        *)
(* Updated or left unreported when it matches one; the id is recorded once   *)
(* per entity recorded.  At return, for every key k whose source[k] repeats  *)
(* no id, no id is recorded both under New and under Updated and no id is    *)
(* recorded twice under a heading; when source[k] repeats an id, that id is  *)
(* recorded once for each of its entities that is recorded.                  *)
C30_ClassifiedOnceAmended ==
    [](C30_NoRepeatedRecord) /\ [][C30_OneOutcome /\ C30_NothingElseRecords]_vars

\* a merge with overwrite of two source entities with the ids b and a has
\* returned: b was new, a was updated, each recorded once
C30_Witness ==
    /\ Returned
    /\ round = 1
    /\ Len(EntitiesOf(source, "form")) = 2
    /\ RecordedIds(report, "New", "form") = <<Str("b")>>
    /\ RecordedIds(report, "Updated", "form") = <<Str("a")>>

====
